---- MODULE Spec2Model ----
(***************************************************************************)
(* Watermark compositing engine of app/core/image_processor.py.           *)
(*                                                                         *)
(* Python computes placement in floats (wm_width / 2, img_width / 2).      *)
(* Every float that occurs is a multiple of 0.5, so the model carries      *)
(* such values DOUBLED, as integers: a name ending in 2 (half_w2, min_x2)  *)
(* holds twice the Python value.  int(round(v)) is RoundHalfEven(2v).      *)
(***************************************************************************)
EXTENDS Integers, Sequences, FiniteSets, TLC

None == "None"
NoPosition == <<>>   \* a position that is None or empty ("not position")

(* ---------------- bounds of the model ---------------- *)
SmallCanvas == 3      \* canvases 1..SmallCanvas are smaller than the margins
MaxCanvas == 46       \* the largest canvas edge
BigSpan == 2          \* large canvases are MaxCanvas-BigSpan..MaxCanvas
MaxWm == 7            \* watermark edges are 0..MaxWm
PosSpan == 2          \* requested centers lie within PosSpan half-pixels of an edge

DefaultMargin == 20   \* margin: int = 20

Max(a, b) == IF a >= b THEN a ELSE b
Min(a, b) == IF a <= b THEN a ELSE b
Abs(n) == IF n >= 0 THEN n ELSE 0 - n

(* int(round(n2 / 2)): Python 3 rounds a tie to the even integer. *)
RoundHalfEven(n2) ==
    IF n2 % 2 = 0 THEN n2 \div 2
    ELSE LET lo == (n2 - 1) \div 2
         IN  IF lo % 2 = 0 THEN lo ELSE lo + 1

(* ---------------- Layout: _clamp_position ---------------- *)
ClampPosition_NoCollapse(position, image_size, watermark_size) ==
    IF position = NoPosition
    THEN <<image_size[1] \div 2, image_size[2] \div 2>>
    ELSE
      LET wm == IF watermark_size = None THEN <<0, 0>> ELSE watermark_size
          x2 == Max(wm[1], Min(position[1], 2 * image_size[1] - wm[1]))
          y2 == Max(wm[2], Min(position[2], 2 * image_size[2] - wm[2]))
      IN  <<RoundHalfEven(x2), RoundHalfEven(y2)>>

(* position is NoPosition or <<2x, 2y>>; the result is in whole pixels. *)
ClampPosition(position, image_size, watermark_size) ==
    IF position = NoPosition
    THEN <<image_size[1] \div 2, image_size[2] \div 2>>
    ELSE
      LET img_w == image_size[1]
          img_h == image_size[2]
          wm == IF watermark_size = None THEN <<0, 0>> ELSE watermark_size
          half_w2 == wm[1]
          half_h2 == wm[2]
          collapse_x == half_w2 > 2 * img_w - half_w2
          collapse_y == half_h2 > 2 * img_h - half_h2
          min_x2 == IF collapse_x THEN img_w ELSE half_w2
          max_x2 == IF collapse_x THEN img_w ELSE 2 * img_w - half_w2
          min_y2 == IF collapse_y THEN img_h ELSE half_h2
          max_y2 == IF collapse_y THEN img_h ELSE 2 * img_h - half_h2
          x2 == Max(min_x2, Min(position[1], max_x2))
          y2 == Max(min_y2, Min(position[2], max_y2))
      IN  <<RoundHalfEven(x2), RoundHalfEven(y2)>>

(* ---------------- Layout: _calculate_grid_position ---------------- *)
Anchors == {"top-left", "top-center", "top-right",
            "middle-left", "center", "middle-right",
            "bottom-left", "bottom-center", "bottom-right"}

LeftAnchors   == {"top-left", "middle-left", "bottom-left"}
RightAnchors  == {"top-right", "middle-right", "bottom-right"}
TopAnchors    == {"top-left", "top-center", "top-right"}
BottomAnchors == {"bottom-left", "bottom-center", "bottom-right"}

GridPosition_CornerMargin(image_size, watermark_size, position_type, margin) ==
    LET img_width == image_size[1]
        img_height == image_size[2]
        left_x2 == 2 * margin
        right_x2 == Max(2 * margin, 2 * img_width - 2 * margin)
        top_y2 == 2 * margin
        bottom_y2 == Max(2 * margin, 2 * img_height - 2 * margin)
        key == IF position_type \in Anchors THEN position_type ELSE "bottom-right"
        cx2 == IF key \in LeftAnchors THEN left_x2
               ELSE IF key \in RightAnchors THEN right_x2 ELSE img_width
        cy2 == IF key \in TopAnchors THEN top_y2
               ELSE IF key \in BottomAnchors THEN bottom_y2 ELSE img_height
    IN  <<RoundHalfEven(cx2), RoundHalfEven(cy2)>>

GridPosition(image_size, watermark_size, position_type, margin) ==
    LET img_width == image_size[1]
        img_height == image_size[2]
        wm_width == Min(watermark_size[1], img_width)
        wm_height == Min(watermark_size[2], img_height)
        half_w2 == wm_width
        half_h2 == wm_height
        left_x2 == 2 * margin + half_w2
        right_x2 == Max(2 * margin + half_w2, 2 * img_width - 2 * margin - half_w2)
        center_x2 == img_width
        top_y2 == 2 * margin + half_h2
        bottom_y2 == Max(2 * margin + half_h2, 2 * img_height - 2 * margin - half_h2)
        center_y2 == img_height
        key == IF position_type \in Anchors THEN position_type ELSE "bottom-right"
        cx2 == IF key \in LeftAnchors THEN left_x2
               ELSE IF key \in RightAnchors THEN right_x2 ELSE center_x2
        cy2 == IF key \in TopAnchors THEN top_y2
               ELSE IF key \in BottomAnchors THEN bottom_y2 ELSE center_y2
    IN  <<RoundHalfEven(cx2), RoundHalfEven(cy2)>>

(* ---------------- Layout: the preview ---------------- *)
(* MainWindow._clamp_position_to_image; position is NoPosition or <<2x, 2y>> *)
ClampPositionToImage_NoCollapse(position, image_size, watermark_size) ==
    ClampPosition_NoCollapse(position, image_size, watermark_size)

ClampPositionToImage(position, image_size, watermark_size) ==
    LET img_w == image_size[1]
        img_h == image_size[2]
        wm == IF watermark_size = None THEN <<0, 0>> ELSE watermark_size
        half_w2 == wm[1]
        half_h2 == wm[2]
        min_x2 == IF half_w2 > 2 * img_w - half_w2 THEN img_w ELSE half_w2
        max_x2 == IF half_w2 > 2 * img_w - half_w2 THEN img_w ELSE 2 * img_w - half_w2
        min_y2 == IF half_h2 > 2 * img_h - half_h2 THEN img_h ELSE half_h2
        max_y2 == IF half_h2 > 2 * img_h - half_h2 THEN img_h ELSE 2 * img_h - half_h2
    IN  IF position = NoPosition
        THEN <<RoundHalfEven(min_x2), RoundHalfEven(min_y2)>>
        ELSE <<RoundHalfEven(Max(min_x2, Min(position[1], max_x2))),
               RoundHalfEven(Max(min_y2, Min(position[2], max_y2)))>>

PreviewMargin == 20  \* margin = 20

(* MainWindow._calculate_default_watermark_position, in half pixels *)
DefaultWatermarkPosition(image_size, watermark_size, position_type) ==
    LET img_width == image_size[1]
        img_height == image_size[2]
        wm_width == Min(watermark_size[1], img_width)
        wm_height == Min(watermark_size[2], img_height)
        left_x2 == 2 * PreviewMargin + wm_width
        right_x2 == Max(2 * PreviewMargin + wm_width,
                        2 * img_width - 2 * PreviewMargin - wm_width)
        top_y2 == 2 * PreviewMargin + wm_height
        bottom_y2 == Max(2 * PreviewMargin + wm_height,
                         2 * img_height - 2 * PreviewMargin - wm_height)
        chosen == IF position_type \in Anchors THEN position_type ELSE "bottom-right"
    IN  <<RoundHalfEven(IF chosen \in LeftAnchors THEN left_x2
                        ELSE IF chosen \in RightAnchors THEN right_x2 ELSE img_width),
          RoundHalfEven(IF chosen \in TopAnchors THEN top_y2
                        ELSE IF chosen \in BottomAnchors THEN bottom_y2 ELSE img_height)>>

(* ---------------- raster backend (PIL) ---------------- *)
(* A pixel is Transparent (alpha 0) or a colour drawn with full coverage;
   opacities are 0 or 255, so "over" blending keeps the upper pixel wherever
   it is not transparent. *)
Transparent == 0
TextInk == 3
StrokeInk == 4
ShadowInk == 5

MaxImg == 5           \* base images are 1 or MaxImg wide, 1 or MaxImg-1 high
GlyphW == 1           \* advance of one glyph of the font, in pixels
GlyphH == 1           \* height of the glyph run
GlyphTop == 1         \* distance from the drawing origin to the top of the ink

Backends == {"strokefill", "modern", "legacy", "plain"}
BBoxAcceptsStrokeFill(backend) == backend = "strokefill"
BBoxAcceptsStrokeWidth(backend) == backend # "plain"
DrawAcceptsStroke(backend) == backend # "plain"
NegativeDestRaises(backend) == backend \in {"legacy", "plain"}

Coords(size) == (0..(size[1] - 1)) \X (0..(size[2] - 1))

NewImage(mode, size, fill) ==
    [mode |-> mode, size |-> size, px |-> [c \in Coords(size) |-> fill]]

Over(below, above) == IF above = Transparent THEN below ELSE above

(* image.convert('RGBA') / image.copy(): a new image with the same pixels *)
ConvertRGBA(im) == [im EXCEPT !.mode = "RGBA"]

(* Image.alpha_composite(im1, im2): a new image, im2 over im1 *)
AlphaComposite(im1, im2) ==
    [im1 EXCEPT !.px = [c \in Coords(im1.size) |-> Over(im1.px[c], im2.px[c])]]

(* the pixel of im at s, transparent outside the image *)
SamplePixel(im, s) == IF s \in Coords(im.size) THEN im.px[s] ELSE Transparent

(* im.crop(box), box = <<left, top, right, bottom>> *)
Crop(im, box) ==
    [mode |-> im.mode, size |-> <<box[3] - box[1], box[4] - box[2]>>,
     px |-> [c \in Coords(<<box[3] - box[1], box[4] - box[2]>>) |->
               SamplePixel(im, <<c[1] + box[1], c[2] + box[2]>>)]]

(* target.alpha_composite(layer, dest): the pixels of target afterwards; the
   part of the layer outside target is dropped by the paste. *)
AlphaCompositeAt(target, layer, dest) ==
    [target EXCEPT !.px = [c \in Coords(target.size) |->
        LET s == <<c[1] - dest[1], c[2] - dest[2]>>
        IN  IF s \in Coords(layer.size)
            THEN Over(target.px[c], layer.px[s]) ELSE target.px[c]]]

(* im.resize(size, LANCZOS): same size gives a copy; the resampler is
   represented by nearest-neighbour sampling. *)
Resize(im, size) ==
    [mode |-> im.mode, size |-> size,
     px |-> [c \in Coords(size) |->
               im.px[<<(c[1] * im.size[1]) \div size[1],
                       (c[2] * im.size[2]) \div size[2]>>]]]

Rotations == {0, 45, 90, 360}

(* cos and sin of an angle in degrees, times 10000 *)
Cos10k(rotation) ==
    CASE rotation % 360 = 0 -> 10000
      [] rotation % 360 \in {45, 315} -> 7071
      [] rotation % 360 \in {135, 225} -> 0 - 7071
      [] rotation % 360 \in {90, 270} -> 0
      [] rotation % 360 = 180 -> 0 - 10000
Sin10k(rotation) ==
    CASE rotation % 360 \in {0, 180} -> 0
      [] rotation % 360 \in {45, 135} -> 7071
      [] rotation % 360 \in {225, 315} -> 0 - 7071
      [] rotation % 360 = 90 -> 10000
      [] rotation % 360 = 270 -> 0 - 10000

CeilDiv(a, b) == 0 - ((0 - a) \div b)

(* the box of an expanding rotation: ceil(max) - floor(min) of the corners
   turned about the center; ew and eh are the turned extents times 10000 *)
ExpandedSize(w, h, ew, eh) ==
    <<CeilDiv(w * 10000 + ew, 20000) - ((w * 10000 - ew) \div 20000),
      CeilDiv(h * 10000 + eh, 20000) - ((h * 10000 - eh) \div 20000)>>

(* the source pixel that output pixel c of the turned image is taken from *)
SourceOf(c, size, nsize, cs, sn) ==
    <<(cs * (2 * c[1] + 1 - nsize[1]) - sn * (2 * c[2] + 1 - nsize[2])
         + size[1] * 10000) \div 20000,
      (sn * (2 * c[1] + 1 - nsize[1]) + cs * (2 * c[2] + 1 - nsize[2])
         + size[2] * 10000) \div 20000>>

Resample(im, nsize, cs, sn) ==
    [mode |-> im.mode, size |-> nsize,
     px |-> [c \in Coords(nsize) |->
               SamplePixel(im, SourceOf(c, im.size, nsize, cs, sn))]]

RotateBy(im, w, h, cs, sn) ==
    Resample(im, ExpandedSize(w, h, w * Abs(cs) + h * Abs(sn),
                              w * Abs(sn) + h * Abs(cs)), cs, sn)

(* im.rotate(angle, BICUBIC, expand=True): counter-clockwise; a multiple of
   360 copies, quarter and half turns transpose, any other angle gives the
   box ceil(max) - floor(min) of the corners turned about the center,
   resampled (nearest neighbour here). *)
Rotate(im, angle) ==
    LET w == im.size[1]
        h == im.size[2]
        a == angle % 360
    IN  IF a = 0 THEN im
        ELSE IF a = 90
        THEN [mode |-> im.mode, size |-> <<h, w>>,
              px |-> [c \in Coords(<<h, w>>) |-> im.px[<<w - 1 - c[2], c[1]>>]]]
        ELSE IF a = 180
        THEN [im EXCEPT !.px = [c \in Coords(im.size) |->
                                  im.px[<<w - 1 - c[1], h - 1 - c[2]>>]]]
        ELSE IF a = 270
        THEN [mode |-> im.mode, size |-> <<h, w>>,
              px |-> [c \in Coords(<<h, w>>) |-> im.px[<<c[2], h - 1 - c[1]>>]]]
        ELSE RotateBy(im, w, h, Cos10k(angle), Sin10k(angle))

(* if rotation != 0: layer = layer.rotate(rotation, ...) *)
Turned(im, rotation) == IF rotation # 0 THEN Rotate(im, rotation) ELSE im

(* draw.textbbox((0, 0), text, font, stroke_width): <<left, top, right, bottom>> *)
TextBBox(text, stroke_width) ==
    <<0 - stroke_width, GlyphTop - stroke_width,
      GlyphW * Len(text) + stroke_width, GlyphTop + GlyphH + stroke_width>>

(* the pixels of im after painting ink on the rectangle box *)
Paint(im, box, ink) ==
    [im EXCEPT !.px = [c \in Coords(im.size) |->
        IF c[1] >= box[1] /\ c[1] < box[3] /\ c[2] >= box[2] /\ c[2] < box[4]
        THEN ink ELSE im.px[c]]]

(* draw.text(xy, text, fill, stroke_width, stroke_fill): the stroke ring
   first (when stroke_width > 0), the glyph run on top *)
DrawText(im, xy, text, fill, stroke_width, stroke_fill) ==
    Paint(IF stroke_width > 0
          THEN Paint(im, <<xy[1] - stroke_width, xy[2] + GlyphTop - stroke_width,
                           xy[1] + GlyphW * Len(text) + stroke_width,
                           xy[2] + GlyphTop + GlyphH + stroke_width>>, stroke_fill)
          ELSE im,
          <<xy[1], xy[2] + GlyphTop,
            xy[1] + GlyphW * Len(text), xy[2] + GlyphTop + GlyphH>>, fill)

(* ---------------- the preview scene (Qt) ---------------- *)
(* Lengths in the scene are in half pixels; turned offsets are in 1/20000 px. *)
ItemKinds == {"text", "pixmap"}

(* item.boundingRect(): a text item spans (0, 0, w, h); a selectable pixmap
   item is wider by half a pen width on every side *)
BoundingRect(kind, size) ==
    IF kind = "text"
    THEN [left |-> 0, top |-> 0, width |-> 2 * size[1], height |-> 2 * size[2]]
    ELSE [left |-> 0 - 1, top |-> 0 - 1, width |-> 2 * size[1] + 2, height |-> 2 * size[2] + 2]

(* rect.center() *)
RectCenter(rect) == <<rect.left + rect.width \div 2, rect.top + rect.height \div 2>>

(* one axis of itemChange(ItemPositionChange): new_pos moved so that
   new_pos + half lies between the limits *)
BoundAxis(new_pos, half, low, high) ==
    IF low + half > high - half
    THEN (IF new_pos + half < (low + high) \div 2 \/ new_pos + half > (low + high) \div 2
          THEN (low + high) \div 2 - half ELSE new_pos)
    ELSE IF new_pos + half < low + half THEN low
    ELSE IF new_pos + half > high - half THEN high - 2 * half
    ELSE new_pos

(* DraggableWatermarkItem.itemChange / DraggablePixmapItem.itemChange for
   ItemPositionChange with valid image_bounds *)
ItemChange(new_pos, rect, bounds_size) ==
    <<BoundAxis(new_pos[1], rect.width \div 2, 0, 2 * bounds_size[1]),
      BoundAxis(new_pos[2], rect.height \div 2, 0, 2 * bounds_size[2])>>

(* the corners of rect relative to its center, turned clockwise by angle *)
TurnedCorners(rect, angle) ==
    {<<Cos10k(angle) * dx - Sin10k(angle) * dy, Sin10k(angle) * dx + Cos10k(angle) * dy>> :
        dx \in {0 - rect.width \div 2, rect.width \div 2},
        dy \in {0 - rect.height \div 2, rect.height \div 2}}

SetMax(S) == CHOOSE x \in S : \A y \in S : y <= x
SetMin(S) == CHOOSE x \in S : \A y \in S : y >= x

(* item.mapRectToScene(item.boundingRect()).center(), in 1/20000 px *)
SceneCenter(item, corners) ==
    <<10000 * (item.pos[1] + item.origin[1])
        + (SetMin({c[1] : c \in corners}) + SetMax({c[1] : c \in corners})) \div 2,
      10000 * (item.pos[2] + item.origin[2])
        + (SetMin({c[2] : c \in corners}) + SetMax({c[2] : c \in corners})) \div 2>>

(* int(round(v)) for v in 1/20000 px *)
RoundFine(v) ==
    IF v % 20000 < 10000 THEN v \div 20000
    ELSE IF v % 20000 > 10000 THEN v \div 20000 + 1
    ELSE IF (v \div 20000) % 2 = 0 THEN v \div 20000 ELSE v \div 20000 + 1

(* relative * (original_image_size / image_rect.width()), rounded *)
ToImage(center, size, rect_size) ==
    <<RoundFine((center[1] * size[1]) \div rect_size[1]),
      RoundFine((center[2] * size[2]) \div rect_size[2])>>

(* desired_center: the position scaled into the image rectangle, or its
   center when no position is given *)
DesiredCenter(at, size, rect_size) ==
    IF at = NoPosition THEN <<rect_size[1], rect_size[2]>>
    ELSE <<(2 * at[1] * rect_size[1]) \div size[1], (2 * at[2] * rect_size[2]) \div size[2]>>

(* setPos(desired_center - center_local) *)
PosFor_TopLeft(desired, origin) == desired

PosFor(desired, origin) == <<desired[1] - origin[1], desired[2] - origin[2]>>

(* the item add_watermark_preview leaves in the scene *)
PreviewItem(kind, rect, rotation, desired, bounds_size) ==
    [kind |-> kind, rect |-> rect, origin |-> RectCenter(rect), rotation |-> 0 - rotation,
     pos |-> ItemChange(PosFor(desired, RectCenter(rect)), rect, bounds_size)]

(* ---------------- TextMetrics ---------------- *)
(* The float a + b*t, t = |cos| or |sin| of a quarter or half turn (about
   1e-16 instead of 0), exceeds the integer a when b*t is more than half an
   ulp of a.  TinyTrig10k is t / 2^-53 times 10000; math.radians is applied
   to the rotation as passed, so t grows with the number of turns. *)
TinyTrig10k(rotation) ==
    CASE Abs(rotation) = 90 -> 5515
      [] Abs(rotation) = 180 -> 11031
      [] Abs(rotation) = 270 -> 16546
      [] Abs(rotation) = 450 -> 27576
      [] Abs(rotation) = 540 -> 33091

Pow2Floor(n) == CHOOSE p \in {1, 2, 4, 8, 16, 32, 64} : p <= n /\ n < 2 * p

CeilWithResidue(whole, other, rotation) ==
    IF whole = 0 THEN (IF other > 0 THEN 1 ELSE 0)
    ELSE IF other * TinyTrig10k(rotation) > 10000 * Pow2Floor(whole)
         THEN whole + 1 ELSE whole

(* ceil of the turned extents for |cos|, |sin| times 10000 *)
TurnedBounds(width, height, cos_t, sin_t) ==
    <<CeilDiv(width * cos_t + height * sin_t, 10000),
      CeilDiv(width * sin_t + height * cos_t, 10000)>>

RotatedBounds(width, height, rotation) ==
    IF rotation % 360 = 0 THEN <<width, height>>
    ELSE IF rotation % 360 \in {90, 270}
    THEN <<CeilWithResidue(height, width, rotation),
           CeilWithResidue(width, height, rotation)>>
    ELSE IF rotation % 360 = 180
    THEN <<CeilWithResidue(width, height, rotation),
           CeilWithResidue(height, width, rotation)>>
    ELSE TurnedBounds(width, height, Abs(Cos10k(rotation)), Abs(Sin10k(rotation)))

(* the canvas the text needs: bounding box plus stroke padding plus the
   room the shadow offset takes *)
PaddedCanvas(bbox, stroke_padding, offset_x, offset_y) ==
    <<(bbox[3] - bbox[1]) + stroke_padding + Max(0, 0 - offset_x) + Max(0, offset_x),
      (bbox[4] - bbox[2]) + stroke_padding + Max(0, 0 - offset_y) + Max(0, offset_y)>>

(* the bounding box the backend reports for the text with its stroke *)
StrokedBBox(text, stroked, stroke_width, backend) ==
    IF stroked /\ BBoxAcceptsStrokeWidth(backend)
    THEN TextBBox(text, stroke_width) ELSE TextBBox(text, 0)

(* the padding added when the backend cannot report the stroke itself *)
StrokePadding(stroked, stroke_width, backend) ==
    IF stroked /\ ~BBoxAcceptsStrokeFill(backend) THEN stroke_width * 2 ELSE 0

MeasuredCanvas(size, rotation) == RotatedBounds(size[1], size[2], rotation)

(* _measure_text; the font is the one _load_font returns *)
MeasureText(text, stroke, stroke_width, shadow, shadow_offset, rotation, backend) ==
    IF text = <<>> THEN <<0, 0>>
    ELSE MeasuredCanvas(
           PaddedCanvas(StrokedBBox(text, stroke /\ stroke_width > 0, stroke_width, backend),
                        StrokePadding(stroke /\ stroke_width > 0, stroke_width, backend),
                        IF shadow THEN shadow_offset[1] ELSE 0,
                        IF shadow THEN shadow_offset[2] ELSE 0),
           rotation)

(* ---------------- watermark files ---------------- *)
WatermarkSource ==
    [mode |-> "RGBA", size |-> <<3, 2>>,
     px |-> [c \in Coords(<<3, 2>>) |->
               IF c = <<0, 0>> THEN Transparent ELSE 6 + ((c[1] + c[2]) % 2)]]

PathExists(path) == path \in {"wm.png", "bad.png"}       \* os.path.exists
Readable(path) == path = "wm.png"                         \* Image.open succeeds
ImageOpen(path) == WatermarkSource                        \* Image.open(path).convert('RGBA')

NoCache == [p \in {} |-> None]

(* scale is in hundredths: max(0.05, min(scale, 10.0)) *)
ClampScale(scale) == Max(5, Min(scale, 1000))

ScaledSize(wm_img, scale) ==
    <<Max(1, (wm_img.size[1] * ClampScale(scale)) \div 100),
      Max(1, (wm_img.size[2] * ClampScale(scale)) \div 100)>>

(* the cache after the path was looked up: filled on a miss *)
FilledCache(cache, watermark_path) ==
    IF watermark_path \in DOMAIN cache THEN cache
    ELSE [p \in DOMAIN cache \cup {watermark_path} |->
            IF p = watermark_path THEN ImageOpen(p) ELSE cache[p]]

(* _get_image_watermark_size: [size, cache] *)
ImageWatermarkSize(watermark_path, scale, rotation, cache) ==
    IF watermark_path = "" \/ ~PathExists(watermark_path)
    THEN [size |-> <<0, 0>>, cache |-> cache]
    ELSE IF watermark_path \notin DOMAIN cache /\ ~Readable(watermark_path)
    THEN [size |-> <<0, 0>>, cache |-> cache]
    ELSE [size |-> MeasuredCanvas(
                     ScaledSize(FilledCache(cache, watermark_path)[watermark_path], scale),
                     rotation),
          cache |-> FilledCache(cache, watermark_path)]

(* ---------------- Compositor ---------------- *)
(* Image objects are named by the place that creates them, so that two names
   for one object (working = resized, return image) are one reference. *)
Refs == {"image", "working", "resized", "base_image", "overlay", "composite"}

EmptyHeap == [r \in Refs |-> None]

NoLayer == NewImage("RGBA", <<0, 0>>, Transparent)
NoMerge == [dest |-> NoPosition, layer |-> NoLayer]

(* a colour drawn with alpha = opacity *)
Ink(colour, opacity) == IF opacity = 0 THEN Transparent ELSE colour

(* dest_x = int(round(position[0] - layer.width / 2)), and dest_y *)
DestOf_TopLeft(position, layer_size) == position

DestOf_Clamped(position, layer_size) ==
    <<Max(0, RoundHalfEven(2 * position[1] - layer_size[1])),
      Max(0, RoundHalfEven(2 * position[2] - layer_size[2]))>>

DestOf(position, layer_size) ==
    <<RoundHalfEven(2 * position[1] - layer_size[1]),
      RoundHalfEven(2 * position[2] - layer_size[2])>>

(* the object that overlay.alpha_composite(...) paints on *)
MergeTarget_Image(image, base_image, overlay) == image

MergeTarget(image, base_image, overlay) == overlay

(* base_image = image.convert('RGBA') *)
WithBase(heap, image) == [heap EXCEPT !["base_image"] = ConvertRGBA(heap[image])]

(* overlay = Image.new('RGBA', base_image.size, (0, 0, 0, 0)) *)
WithOverlay(h1) ==
    [h1 EXCEPT !["overlay"] = NewImage("RGBA", h1["base_image"].size, Transparent)]

(* composite = Image.alpha_composite(base_image, overlay) *)
WithComposite(h3) ==
    [h3 EXCEPT !["composite"] = AlphaComposite(h3["base_image"], h3["overlay"])]

(* target.alpha_composite(layer, dest=at), then the composite *)
Composite(h2, target, layer, at) ==
    WithComposite([h2 EXCEPT ![target] = AlphaCompositeAt(h2[target], layer, at)])

(* the text drawn on the blank canvas: shadow first, then the (stroked) text *)
DrawLayer(blank, text_pos, offset, text, opacity, shadow, stroked, radius) ==
    DrawText(IF shadow
             THEN DrawText(blank, <<text_pos[1] + offset[1], text_pos[2] + offset[2]>>,
                           text, Ink(ShadowInk, Min(255, opacity)), 0, Transparent)
             ELSE blank,
             text_pos, text, Ink(TextInk, opacity),
             IF stroked THEN radius ELSE 0,
             IF stroked THEN Ink(StrokeInk, opacity) ELSE Transparent)

(* canvas = Image.new(...), text_pos: where the text starts on it *)
LayerOn(bbox, canvas_size, offset, text, opacity, shadow, stroked, radius) ==
    DrawLayer(NewImage("RGBA", canvas_size, Transparent),
              <<Max(0, 0 - offset[1]) - bbox[1], Max(0, 0 - offset[2]) - bbox[2]>>,
              offset, text, opacity, shadow, stroked, radius)

UnturnedTextLayer(bbox, padding, offset, text, opacity, shadow, stroked, radius) ==
    LayerOn(bbox, PaddedCanvas(bbox, padding, offset[1], offset[2]), offset,
            text, opacity, shadow, stroked, radius)

(* the transparent layer add_text_watermark draws and rotates *)
TextLayer(text, opacity, shadow, stroke, rotation, shadow_offset, stroke_width, backend) ==
    Turned(UnturnedTextLayer(
             StrokedBBox(text, stroke /\ stroke_width > 0, stroke_width, backend),
             StrokePadding(stroke /\ stroke_width > 0, stroke_width, backend),
             IF shadow THEN shadow_offset ELSE <<0, 0>>,
             text, opacity, shadow, stroke /\ stroke_width > 0,
             IF DrawAcceptsStroke(backend) THEN stroke_width ELSE Max(1, stroke_width)),
           rotation)

(* the part of the layer that overlaps the base image:
   <<src_left, src_top, src_right, src_bottom>> *)
SourceBox(dest, layer_size, base_size) ==
    <<Max(0, 0 - dest[1]), Max(0, 0 - dest[2]),
      Min(layer_size[1], base_size[1] - dest[1]),
      Min(layer_size[2], base_size[2] - dest[2])>>

(* crop, overlay, merge: [heap, ret, dest, layer, caught] *)
MergeCropped(h1, image, canvas, dest, box) ==
    IF box[1] >= box[3] \/ box[2] >= box[4]
    THEN [heap |-> h1, ret |-> "base_image", dest |-> dest, layer |-> canvas,
          caught |-> FALSE]
    ELSE [heap |-> Composite(WithOverlay(h1), MergeTarget(image, "base_image", "overlay"),
                             Crop(canvas, box), <<Max(dest[1], 0), Max(dest[2], 0)>>),
          ret |-> "composite", dest |-> dest, layer |-> canvas, caught |-> FALSE]

MergeTextLayer(h1, image, canvas, dest) ==
    MergeCropped(h1, image, canvas, dest,
                 SourceBox(dest, canvas.size, h1["base_image"].size))

PlaceTextLayer(h1, image, canvas, position) ==
    MergeTextLayer(h1, image, canvas, DestOf(position, canvas.size))

(* add_text_watermark: [heap, ret, dest, layer, caught]; caught tells that the
   except clause ran *)
AddTextWatermark(heap, image, text, position, opacity, shadow, stroke, rotation, shadow_offset, stroke_width, backend) ==
    PlaceTextLayer(WithBase(heap, image), image,
                   TextLayer(text, opacity, shadow, stroke, rotation,
                             shadow_offset, stroke_width, backend),
                   position)

(* watermark.putalpha(...): the layer with alpha scaled by opacity / 255 *)
Faded(im, opacity) ==
    IF opacity < 255
    THEN [im EXCEPT !.px = [c \in Coords(im.size) |-> Ink(im.px[c], opacity)]]
    ELSE im

(* the scaled, faded and rotated copy of the cached watermark image *)
ImageLayer_Unrotated(wm_img, scale, opacity, rotation) ==
    Faded(Resize(wm_img, ScaledSize(wm_img, scale)), opacity)

ImageLayer(wm_img, scale, opacity, rotation) ==
    Turned(Faded(Resize(wm_img, ScaledSize(wm_img, scale)), opacity), rotation)

(* overlay.alpha_composite(watermark, dest) and the composite:
   [heap, ret, cache, dest, layer, caught] *)
MergeImageLayer(h2, image, watermark, dest, filled, backend) ==
    IF (dest[1] < 0 \/ dest[2] < 0) /\ NegativeDestRaises(backend)
    THEN [heap |-> h2, ret |-> image, cache |-> filled,
          dest |-> dest, layer |-> watermark, caught |-> TRUE]
    ELSE [heap |-> Composite(h2, MergeTarget(image, "base_image", "overlay"),
                             watermark, dest),
          ret |-> "composite", cache |-> filled, dest |-> dest, layer |-> watermark,
          caught |-> FALSE]

PlaceImageLayer(h2, image, watermark, position, filled, backend) ==
    MergeImageLayer(h2, image, watermark, DestOf(position, watermark.size),
                    filled, backend)

(* the watermark image comes from the cache, filled on a miss *)
AddCachedWatermark(heap, image, watermark_path, position, scale, opacity, rotation, filled, backend) ==
    PlaceImageLayer(WithOverlay(WithBase(heap, image)), image,
                    ImageLayer(filled[watermark_path], scale, opacity, rotation),
                    position, filled, backend)

(* add_image_watermark: [heap, ret, cache, dest, layer, caught]; every
   exception is caught (caught = TRUE) and the image passed in is returned *)
AddImageWatermark(heap, image, watermark_path, position, scale, opacity, rotation, cache, backend) ==
    IF watermark_path = "" \/ ~PathExists(watermark_path)
    THEN [heap |-> heap, ret |-> image, cache |-> cache, dest |-> NoPosition,
          layer |-> NoLayer, caught |-> FALSE]
    ELSE IF watermark_path \notin DOMAIN cache /\ ~Readable(watermark_path)
    THEN [heap |-> heap, ret |-> image, cache |-> cache, dest |-> NoPosition,
          layer |-> NoLayer, caught |-> TRUE]
    ELSE AddCachedWatermark(heap, image, watermark_path, position, scale, opacity,
                            rotation, FilledCache(cache, watermark_path), backend)

(* ---- int(c * (a / b)) in IEEE double arithmetic ---- *)
(* e with 2^(e-1) <= a/b < 2^e *)
RECURSIVE BinaryExponent(_, _)
BinaryExponent(a, b) ==
    IF a >= 2 * b THEN BinaryExponent(a, 2 * b) + 1
    ELSE IF a < b THEN BinaryExponent(2 * a, b) - 1
    ELSE 1

(* e with 2^(e-1) < q <= 2^e *)
RECURSIVE QuotientExponent(_)
QuotientExponent(q) == IF q <= 1 THEN 0 ELSE QuotientExponent((q + 1) \div 2) + 1

RECURSIVE TwoPowerMod(_, _)
TwoPowerMod(k, b) == IF k = 0 THEN 1 % b ELSE (2 * TwoPowerMod(k - 1, b)) % b

(* a * 2^k - m * b for the 53-bit significand m the division a / b rounds
   to: positive when the double is below the quotient *)
RoundingResidue(remainder, b) == IF 2 * remainder <= b THEN remainder ELSE remainder - b

DivisionResidue(a, b, exponent) ==
    RoundingResidue(((a % b) * TwoPowerMod(53 - exponent, b)) % b, b)

(* the product of c and the double a / b falls below the integer q = c*a/b
   by more than half a unit in the last place of q *)
RoundsBelow(c, b, q, residue, exponent) ==
    /\ residue > 0
    /\ c >= 2
    /\ 2 * c * residue > b * 2^(QuotientExponent(q) - exponent)

(* int(c * (a / b)): the floor of the quotient, except that an exact integer
   quotient is missed by one when the rounded product stays below it *)
IntOfProduct(c, a, b) ==
    IF (c * a) % b # 0 THEN (c * a) \div b
    ELSE IF RoundsBelow(c, b, (c * a) \div b,
                        DivisionResidue(a, b, BinaryExponent(a, b)),
                        BinaryExponent(a, b))
         THEN (c * a) \div b - 1
         ELSE (c * a) \div b

(* the new size resize_image computes for a method *)
NewWidth(method, current, target_width, target_height, percentage, keep_aspect) ==
    IF method = "percentage"
    THEN Max(1, IntOfProduct(current[1], Max(1, percentage), 100))
    ELSE IF method = "width" THEN Max(1, target_width)
    ELSE IF keep_aspect
         THEN Max(1, IntOfProduct(current[1], Max(1, target_height), current[2]))
         ELSE Max(1, IF target_width > 0 THEN target_width ELSE current[1])

NewHeight(method, current, target_width, target_height, percentage, keep_aspect) ==
    IF method = "percentage"
    THEN Max(1, IntOfProduct(current[2], Max(1, percentage), 100))
    ELSE IF method = "height" THEN Max(1, target_height)
    ELSE IF keep_aspect
         THEN Max(1, IntOfProduct(current[2], Max(1, target_width), current[1]))
         ELSE Max(1, IF target_height > 0 THEN target_height ELSE current[2])

ResizedTo(im, known, new_size) ==
    IF ~known \/ new_size = im.size
    THEN [same |-> TRUE, im |-> im]
    ELSE [same |-> FALSE, im |-> Resize(im, new_size)]

(* resize_image: [same, im]; same means the image passed in is returned *)
ResizeImage(im, method, target_width, target_height, percentage, keep_aspect) ==
    ResizedTo(im, method \in {"percentage", "width", "height"},
              <<NewWidth(method, im.size, target_width, target_height,
                         percentage, keep_aspect),
                NewHeight(method, im.size, target_width, target_height,
                          percentage, keep_aspect)>>)

(* working = image.copy(), then the optional resize: [heap, working] *)
Resized(h0, enabled, resized) ==
    IF enabled /\ ~resized.same
    THEN [heap |-> [h0 EXCEPT !["resized"] = resized.im], working |-> "resized"]
    ELSE [heap |-> h0, working |-> "working"]

WorkingCopy(heap, image, config) ==
    Resized([heap EXCEPT !["working"] = heap[image]], config.resize_enabled,
            ResizeImage(heap[image], config.resize_method, config.resize_width,
                        config.resize_height, config.resize_percentage,
                        config.keep_aspect_ratio))

(* the center of the watermark: clamped custom position or grid anchor *)
CenterOf(config, size, wm_size) ==
    IF config.use_custom_position /\ config.custom_position # NoPosition
    THEN ClampPosition(config.custom_position, size, wm_size)
    ELSE GridPosition(size, wm_size, config.position_type, DefaultMargin)

(* the font the resolver found is written back to the configuration *)
WithResolvedFont(config, resolved) ==
    IF config.font_path = "" /\ resolved.found
    THEN [config EXCEPT !.font_family = resolved.family,
                        !.font_path = resolved.path,
                        !.font_index = resolved.index]
    ELSE config

(* font_path, font_index of the configuration *)
FontOf(config) == [path |-> config.font_path, index |-> config.font_index]

(* the local font_path, font_index after the resolution step *)
FontUsed(config, resolved) ==
    IF config.font_path = "" /\ resolved.found
    THEN [path |-> resolved.path, index |-> resolved.index]
    ELSE FontOf(config)

(* the font_path, font_index arguments of the _measure_text call *)
MeasureFont(config, resolved) == FontUsed(config, resolved)

(* the font_path, font_index arguments of the add_text_watermark call *)
RenderFont_Configured(config, resolved) == FontOf(config)

RenderFont(config, resolved) == FontUsed(config, resolved)

(* the fonts the measuring and the drawing call were given, one per call *)
NoFontCalls == [measure |-> <<>>, render |-> <<>>]

TextFontCalls(config, resolved) ==
    [measure |-> <<MeasureFont(config, resolved)>>,
     render |-> <<RenderFont(config, resolved)>>]

(* what apply_watermark leaves behind and returns, r being the outcome of
   the drawing call *)
Outcome(r, config, size, wm_size, center, fonts) ==
    [heap |-> r.heap, ret |-> r.ret, config |-> config, cache |-> r.cache,
     image_size |-> size, wm_size |-> wm_size, position |-> center,
     dest |-> r.dest, layer |-> r.layer, caught |-> r.caught,
     measured_with |-> fonts.measure, rendered_with |-> fonts.render]

(* nothing is drawn and the copy made before the resize is returned *)
Unmarked_Unresized(h1, working, cache) ==
    [heap |-> h1, ret |-> "working", cache |-> cache,
     dest |-> NoPosition, layer |-> NoLayer, caught |-> FALSE]

(* nothing is drawn: the working copy is returned *)
Unmarked(h1, working, cache) ==
    [heap |-> h1, ret |-> working, cache |-> cache,
     dest |-> NoPosition, layer |-> NoLayer, caught |-> FALSE]

(* add_text_watermark does not touch the watermark cache *)
WithCache(r, cache) ==
    [heap |-> r.heap, ret |-> r.ret, cache |-> cache, dest |-> r.dest,
     layer |-> r.layer, caught |-> r.caught]

ImageBranchAt(h1, working, size, config, measured, center, backend) ==
    IF config.image_watermark_path # "" /\ PathExists(config.image_watermark_path)
    THEN Outcome(AddImageWatermark(h1, working, config.image_watermark_path, center,
                                   config.image_scale, config.image_opacity,
                                   config.rotation_angle, measured.cache, backend),
                 config, size, measured.size, center, NoFontCalls)
    ELSE Outcome(Unmarked(h1, working, measured.cache), config, size,
                 measured.size, center, NoFontCalls)

ImageBranch(h1, working, size, config, measured, backend) ==
    ImageBranchAt(h1, working, size, config, measured,
                  CenterOf(config, size, measured.size), backend)

TextBranchAt(h1, working, size, config, cache, wm_size, center, backend, resolved) ==
    Outcome(WithCache(AddTextWatermark(h1, working, config.text, center, config.opacity,
                                       config.text_shadow, config.text_stroke,
                                       config.rotation_angle, config.shadow_offset,
                                       config.stroke_width, backend), cache),
            WithResolvedFont(config, resolved), size, wm_size, center,
            TextFontCalls(config, resolved))

TextBranch(h1, working, size, config, cache, wm_size, backend, resolved) ==
    TextBranchAt(h1, working, size, config, cache, wm_size,
                 CenterOf(config, size, wm_size), backend, resolved)

Watermarked(h1, working, size, config, cache, backend, resolved) ==
    IF config.watermark_type = "image"
    THEN ImageBranch(h1, working, size, config,
                     ImageWatermarkSize(config.image_watermark_path, config.image_scale,
                                        config.rotation_angle, cache),
                     backend)
    ELSE IF config.text = <<>>
    THEN Outcome(Unmarked(h1, working, cache), config, size, None, None, NoFontCalls)
    ELSE TextBranch(h1, working, size, config, cache,
                    MeasureText(config.text, config.text_stroke, config.stroke_width,
                                config.text_shadow, config.shadow_offset,
                                config.rotation_angle, backend),
                    backend, resolved)

(* original_width, original_height: the size of the copy before the resize *)
ImageSize_Original(w) == w.heap["working"].size

(* image_size = working.size, taken after the resize *)
ImageSize(w) == w.heap[w.working].size

WatermarkedOn(w, config, cache, backend, resolved) ==
    Watermarked(w.heap, w.working, ImageSize(w), config, cache,
                backend, resolved)

(* apply_watermark.  resolved is what resolve_font_with_aliases returns for
   the configured family: [found, family, path, index].
   Result: [heap, ret, config, cache, image_size, wm_size, position, dest, layer,
   caught, measured_with, rendered_with] *)
ApplyWatermark(heap, image, config, cache, backend, resolved) ==
    WatermarkedOn(WorkingCopy(heap, image, config), config, cache, backend, resolved)

(* ---------------- state ---------------- *)
VARIABLES
    pc,               \* the call that was made last, "idle" before the first
    image_size,       \* canvas size the placement was computed for
    watermark_size,   \* measured watermark size
    position,         \* requested center: NoPosition or <<2x, 2y>>
    position_type,    \* requested anchor
    placed,           \* the center the layout returned
    heap,             \* the image objects; heap["image"] is the caller's image
    before,           \* the caller's image as it was before the call
    config,           \* the caller's configuration object
    watermark_cache,  \* ImageProcessor._watermark_cache
    backend,          \* the raster backend the process runs on
    result,           \* the reference the call returned
    merge,            \* [dest, layer] of the merge step, NoMerge without one
    requested,        \* the configuration as the caller built it, before the call
    measured_with,    \* font (path, index) given to _measure_text, one per call
    rendered_with,    \* font (path, index) given to add_text_watermark, one per call
    caught,           \* an except clause of the drawing call ran
    raised,           \* an exception left the call
    original_size,    \* apply_watermark's original_width, original_height
    loadable,         \* the font files ImageFont.truetype can open
    path_style,       \* getname() style of the font at the explicit path
    font_request,     \* the arguments of the _load_font call
    attempts,         \* the fonts _load_font asked the backend for, in order
    font,             \* the font _load_font returned
    indexed,          \* FontResolver._indexed
    fonts_by_family,  \* FontResolver._fonts_by_family
    threads,          \* where each thread is in FontResolver.resolve
    scans,            \* the directory scans _ensure_index has started
    file_fates,       \* ExportThread.file_paths: what happens to each file
    next_file,        \* ExportThread.run: the file the loop is at
    signals,          \* the signals ExportThread has emitted, in order
    success_count     \* ExportThread.run's success_count

layoutVars == <<image_size, watermark_size, position, position_type, placed>>
engineVars == <<heap, before, config, watermark_cache, backend, result, merge>>
callVars == <<requested, measured_with, rendered_with, caught, raised>>
fontVars == <<loadable, path_style, font_request, attempts, font>>
indexVars == <<indexed, fonts_by_family, threads, scans>>
exportVars == <<file_fates, next_file, signals, success_count>>
(* ---------------- state of the further parts ---------------- *)
VARIABLES
    images,
    current_image_path,
    call_path,
    returned,
    saved
    \* images: ImageProcessor.images, its keys in insertion order
    \* current_image_path: ImageProcessor.current_image_path
    \* call_path: the file_path argument of the last call
    \* returned: what the last call returned
    \* saved: the output files export_image has written

libraryVars == <<images, current_image_path, call_path, returned, saved>>

VARIABLES
    score_call,
    score
    \* score_call: the arguments of the _score_entry call
    \* score: what _score_entry returned

scoreVars == <<score_call, score>>

VARIABLES
    cache,
    resolve_call,
    resolve_result,
    first_results,
    lookups
    \* cache: FontResolver._cache, the memoized lookups
    \* resolve_call: the arguments of the last resolve call
    \* resolve_result: what the last resolve call returned
    \* first_results: what the first call with each key returned
    \* lookups: the resolve calls made so far

resolverVars == <<cache, resolve_call, resolve_result, first_results, lookups>>

VARIABLES
    bounds_call,
    bounds
    \* bounds_call: the arguments of the _rotated_bounds call
    \* bounds: what _rotated_bounds returned

boundsVars == <<bounds_call, bounds>>

VARIABLES
    preview_position
    \* preview_position: the center update_preview places the watermark at

previewVars == <<preview_position>>

VARIABLES
    original_image_size,
    watermark_item,
    preview_call,
    reported,
    use_custom_position,
    custom_watermark_position,
    pending_preset_position,
    suppress_watermark_position_signal,
    suspend_position_emission,
    ignore_next_bound,
    timers,
    dragging,
    preview_timer
    \* original_image_size: PreviewGraphicsView.original_image_size, the size of the image item
    \* watermark_item: PreviewGraphicsView.watermark_item
    \* preview_call: the arguments of add_watermark_preview
    \* reported: what get_watermark_position returned
    \* use_custom_position: MainWindow.use_custom_position
    \* custom_watermark_position: MainWindow.custom_watermark_position, NoPosition for None
    \* pending_preset_position: MainWindow._pending_preset_position
    \* suppress_watermark_position_signal: MainWindow._suppress_watermark_position_signal
    \* suspend_position_emission: PreviewGraphicsView._suspend_position_emission
    \* ignore_next_bound: the _ignore_next_bound attribute of the watermark item
    \* timers: the zero-delay single-shot timers that have not fired yet, oldest first
    \* dragging: the user holds the watermark item and has moved it
    \* preview_timer: MainWindow.preview_timer is active

viewVars == <<original_image_size, watermark_item, preview_call, reported, use_custom_position, custom_watermark_position, pending_preset_position, suppress_watermark_position_signal, suspend_position_emission, ignore_next_bound, timers, dragging, preview_timer>>

laterVars == <<libraryVars, scoreVars, resolverVars, boundsVars, previewVars, viewVars>>
earlierVars == <<layoutVars, engineVars, callVars, original_size, fontVars, indexVars, exportVars>>

(* the state other than that of one part *)
notLibraryVars == <<earlierVars, scoreVars, resolverVars, boundsVars, previewVars, viewVars>>
notScoreVars == <<earlierVars, libraryVars, resolverVars, boundsVars, previewVars, viewVars>>
notResolverVars == <<earlierVars, libraryVars, scoreVars, boundsVars, previewVars, viewVars>>
notBoundsVars == <<earlierVars, libraryVars, scoreVars, resolverVars, previewVars, viewVars>>
notPreviewVars == <<earlierVars, libraryVars, scoreVars, resolverVars, boundsVars, viewVars>>
notViewVars == <<earlierVars, libraryVars, scoreVars, resolverVars, boundsVars, previewVars>>

auxVars == <<original_size, fontVars, indexVars, exportVars, laterVars>>

vars == <<pc, layoutVars, engineVars, callVars, auxVars>>

CanvasDims == (1..SmallCanvas) \cup ((MaxCanvas - BigSpan)..MaxCanvas)
WmDims == 0..MaxWm

(* requested centers (doubled) around both edges and the middle of an axis *)
RequestsOn(len) == ((0 - 1)..PosSpan) \cup ((2 * len - PosSpan)..(2 * len + 1)) \cup {len}

(* WatermarkConfig() of config_manager.py, the fields the engine reads *)
DefaultConfig ==
    [watermark_type |-> "text", text |-> <<"A", "b">>, opacity |-> 128,
     position_type |-> "bottom-right", custom_position |-> <<0, 0>>,
     use_custom_position |-> FALSE,
     font_family |-> "Arial", font_path |-> "", font_index |-> 0,
     text_shadow |-> FALSE, text_stroke |-> FALSE,
     shadow_offset |-> <<2, 2>>, stroke_width |-> 1,
     image_watermark_path |-> "", image_scale |-> 100, image_opacity |-> 128,
     rotation_angle |-> 0,
     resize_enabled |-> FALSE, resize_method |-> "percentage",
     resize_width |-> 800, resize_height |-> 600, resize_percentage |-> 100,
     keep_aspect_ratio |-> TRUE]

(* no call was observed *)
NoCall ==
    /\ requested = DefaultConfig
    /\ measured_with = <<>>
    /\ rendered_with = <<>>
    /\ caught = FALSE
    /\ raised = FALSE

(* the parts of the program the specification at hand leaves out are at rest *)
NoFontLoad ==
    /\ loadable = {}
    /\ path_style = [bold |-> FALSE, italic |-> FALSE]
    /\ font_request = None
    /\ attempts = <<>>
    /\ font = None

(* a FontResolver nobody has used *)
NoIndex ==
    /\ indexed = FALSE
    /\ fonts_by_family = <<>>
    /\ threads = <<>>
    /\ scans = 0

NoExport ==
    /\ file_fates = <<>>
    /\ next_file = 0
    /\ signals = <<>>
    /\ success_count = 0

(* ---------------- the further parts at rest ---------------- *)
NoLibrary ==
    /\ images = <<>>
    /\ current_image_path = None
    /\ call_path = None
    /\ returned = None
    /\ saved = {}

NoScore ==
    /\ score_call = None
    /\ score = 0

NoResolver ==
    /\ cache = <<>>
    /\ resolve_call = None
    /\ resolve_result = None
    /\ first_results = <<>>
    /\ lookups = 0

NoBounds ==
    /\ bounds_call = None
    /\ bounds = None

NoPreview ==
    /\ preview_position = None

NoView ==
    /\ original_image_size = None
    /\ watermark_item = None
    /\ preview_call = None
    /\ reported = None
    /\ use_custom_position = FALSE
    /\ custom_watermark_position = NoPosition
    /\ pending_preset_position = FALSE
    /\ suppress_watermark_position_signal = FALSE
    /\ suspend_position_emission = FALSE
    /\ ignore_next_bound = FALSE
    /\ timers = <<>>
    /\ dragging = FALSE
    /\ preview_timer = FALSE

NoLater ==
    /\ NoLibrary
    /\ NoScore
    /\ NoResolver
    /\ NoBounds
    /\ NoPreview
    /\ NoView

NoAux ==
    /\ original_size = None
    /\ NoFontLoad
    /\ NoIndex
    /\ NoExport
    /\ NoLater

(* the layout and the compositing engine are not in use *)
EngineUnused ==
    /\ image_size = None
    /\ watermark_size = None
    /\ position = NoPosition
    /\ position_type = "bottom-right"
    /\ placed = None
    /\ heap = EmptyHeap
    /\ before = None
    /\ config = DefaultConfig
    /\ watermark_cache = NoCache
    /\ backend = "modern"
    /\ result = None
    /\ merge = NoMerge
    /\ NoCall

(* ---------------- one part in use, the others at rest ---------------- *)
EarlierUnused ==
    /\ EngineUnused
    /\ original_size = None
    /\ NoFontLoad
    /\ NoIndex
    /\ NoExport

(* all but the font index at rest *)
IndexInUse ==
    /\ EngineUnused
    /\ original_size = None
    /\ NoFontLoad
    /\ NoExport

(* all but the layout at rest *)
LayoutInUse ==
    /\ heap = EmptyHeap
    /\ before = None
    /\ config = DefaultConfig
    /\ watermark_cache = NoCache
    /\ backend = "modern"
    /\ result = None
    /\ merge = NoMerge
    /\ NoCall
    /\ original_size = None
    /\ NoFontLoad
    /\ NoIndex
    /\ NoExport

LibraryOnly ==
    /\ EarlierUnused
    /\ NoScore
    /\ NoResolver
    /\ NoBounds
    /\ NoPreview
    /\ NoView

ScoreOnly ==
    /\ EarlierUnused
    /\ NoLibrary
    /\ NoResolver
    /\ NoBounds
    /\ NoPreview
    /\ NoView

ResolverOnly ==
    /\ IndexInUse
    /\ NoLibrary
    /\ NoScore
    /\ NoBounds
    /\ NoPreview
    /\ NoView

BoundsOnly ==
    /\ EarlierUnused
    /\ NoLibrary
    /\ NoScore
    /\ NoResolver
    /\ NoPreview
    /\ NoView

PreviewOnly ==
    /\ LayoutInUse
    /\ NoLibrary
    /\ NoScore
    /\ NoResolver
    /\ NoBounds
    /\ NoView

ViewOnly ==
    /\ EarlierUnused
    /\ NoLibrary
    /\ NoScore
    /\ NoResolver
    /\ NoBounds
    /\ NoPreview

(* except Exception as e: print(...); return image -- nothing is re-raised *)
Propagated(exception) == FALSE

(* ---------------- the layout calls ---------------- *)
LayoutInit ==
    /\ image_size \in CanvasDims \X CanvasDims
    /\ watermark_size \in WmDims \X WmDims
    /\ position = NoPosition
    /\ position_type = "bottom-right"
    /\ placed = None
    /\ pc = "idle"
    /\ heap = EmptyHeap
    /\ before = None
    /\ config = DefaultConfig
    /\ watermark_cache = NoCache
    /\ backend = "modern"
    /\ result = None
    /\ merge = NoMerge
    /\ NoCall
    /\ NoAux

CallClampPosition ==
    /\ pc = "idle"
    /\ \E p \in {NoPosition} \cup (RequestsOn(image_size[1]) \X RequestsOn(image_size[2])) :
         /\ position' = p
         /\ placed' = ClampPosition(p, image_size, watermark_size)
    /\ pc' = "clamped"
    /\ UNCHANGED <<image_size, watermark_size, position_type>>
    /\ UNCHANGED <<engineVars, callVars, auxVars>>

CallGridPosition ==
    /\ pc = "idle"
    /\ \E a \in Anchors \cup {"unknown"} :
         /\ position_type' = a
         /\ placed' = GridPosition(image_size, watermark_size, a, DefaultMargin)
    /\ pc' = "grid"
    /\ UNCHANGED <<image_size, watermark_size, position>>
    /\ UNCHANGED <<engineVars, callVars, auxVars>>

LayoutNext == CallClampPosition \/ CallGridPosition

SpecLayout == LayoutInit /\ [][LayoutNext]_vars

(* ---------------- the compositing calls ---------------- *)
BaseSizes == {<<1, 1>>, <<MaxImg, MaxImg - 1>>}

(* an RGB photograph, or an RGBA one with a transparent corner *)
BaseImage(mode, size) ==
    [mode |-> mode, size |-> size,
     px |-> [c \in Coords(size) |->
               IF mode = "RGBA" /\ c = <<0, 0>> THEN Transparent
               ELSE 1 + ((c[1] + 2 * c[2]) % 2)]]

BaseImages == {BaseImage(m, sz) : m \in {"RGB", "RGBA"}, sz \in BaseSizes}

Styles ==
    {[text_stroke |-> st, text_shadow |-> sh, opacity |-> 128] :
        st \in BOOLEAN, sh \in BOOLEAN}
    \cup {[text_stroke |-> FALSE, text_shadow |-> FALSE, opacity |-> 0]}

PlainStyle == [text_stroke |-> FALSE, text_shadow |-> FALSE, opacity |-> 128]

CustomDims == {0 - 1, 4, MaxImg, 2 * MaxImg + 1}

Custom(p) ==
    [use_custom_position |-> TRUE, custom_position |-> p, position_type |-> "bottom-right"]

Grid(a) ==
    [use_custom_position |-> FALSE, custom_position |-> <<0, 0>>, position_type |-> a]

Placements ==
    {Custom(p) : p \in {NoPosition} \cup (CustomDims \X CustomDims)}
    \cup {Grid(a) : a \in {"top-left", "center", "bottom-right"}}

FewPlacements == {Custom(<<4, 4>>), Grid("bottom-right")}

NoResize ==
    [resize_enabled |-> FALSE, resize_method |-> "percentage", resize_width |-> 800,
     resize_percentage |-> 100]

Resizings ==
    {NoResize,
     [resize_enabled |-> TRUE, resize_method |-> "percentage", resize_width |-> 800,
      resize_percentage |-> 200],
     [resize_enabled |-> TRUE, resize_method |-> "width", resize_width |-> 3,
      resize_percentage |-> 100]}

TextConfig(st, pl, rs, rot) ==
    [DefaultConfig EXCEPT !.text_stroke = st.text_stroke,
                          !.text_shadow = st.text_shadow,
                          !.shadow_offset = <<1, 0 - 1>>,
                          !.opacity = st.opacity,
                          !.use_custom_position = pl.use_custom_position,
                          !.custom_position = pl.custom_position,
                          !.position_type = pl.position_type,
                          !.resize_enabled = rs.resize_enabled,
                          !.resize_method = rs.resize_method,
                          !.resize_width = rs.resize_width,
                          !.resize_percentage = rs.resize_percentage,
                          !.rotation_angle = rot]

TextConfigs ==
    {TextConfig(PlainStyle, pl, rs, rot) :
        pl \in Placements, rs \in Resizings, rot \in Rotations}
    \cup {TextConfig(st, pl, NoResize, rot) :
        st \in Styles, pl \in FewPlacements, rot \in Rotations}
    \cup {[DefaultConfig EXCEPT !.font_family = f, !.font_path = fp] :
        f \in {"", "Arial", "Helvetica", "Nope"}, fp \in {"", "arial.ttf"}}
    \cup {[DefaultConfig EXCEPT !.text = <<>>]}
    \cup {[TextConfig(PlainStyle, Grid("center"), rs, 0) EXCEPT !.text = <<>>] :
        rs \in Resizings}

WatermarkPaths == {"", "missing.png", "wm.png", "bad.png"}

ImageConfig(path, sc, op, pl, rs, rot) ==
    [TextConfig(PlainStyle, pl, rs, rot) EXCEPT !.watermark_type = "image",
                                                !.text = <<>>,
                                                !.image_watermark_path = path,
                                                !.image_scale = sc,
                                                !.image_opacity = op]

ImageConfigs ==
    {ImageConfig("wm.png", 100, 255, pl, rs, rot) :
        pl \in Placements, rs \in Resizings, rot \in Rotations}
    \cup {ImageConfig("wm.png", sc, op, pl, NoResize, rot) :
        sc \in {1, 100, 200}, op \in {0, 128}, pl \in FewPlacements, rot \in Rotations}
    \cup {ImageConfig(path, 100, 255, pl, NoResize, 0) :
        path \in WatermarkPaths, pl \in FewPlacements}
    \cup {ImageConfig(path, 100, 255, Grid("center"), rs, 0) :
        path \in WatermarkPaths \ {"wm.png"}, rs \in Resizings}

(* the families the font index knows, and what resolve_font_with_aliases
   returns for a family: [found, family, path, index] *)
InstalledFamilies == {"Arial", "Helvetica"}

ResolveFontWithAliases(family) ==
    IF family = "Arial"
    THEN [found |-> TRUE, family |-> family, path |-> "arial.ttf", index |-> 0]
    ELSE IF family \in InstalledFamilies
    THEN [found |-> TRUE, family |-> family, path |-> "Helvetica.ttc", index |-> 2]
    ELSE [found |-> FALSE, family |-> "", path |-> "", index |-> 0]

(* families or ["Arial"]: the configured family, Arial when it is empty *)
FamiliesOf(c) == IF c.font_family = "" THEN "Arial" ELSE c.font_family

(* positions handed to add_text_watermark / add_image_watermark directly *)
DirectDims == {0 - 2 * MaxImg, 0, 2, MaxImg, 3 * MaxImg}
FewDirect == {<<2, 2>>, <<0, MaxImg>>}

EngineInit ==
    /\ pc = "idle"
    /\ image_size = None
    /\ watermark_size = None
    /\ position = NoPosition
    /\ position_type = "bottom-right"
    /\ placed = None
    /\ \E im \in BaseImages :
         /\ heap = [EmptyHeap EXCEPT !["image"] = im]
         /\ before = im
    /\ config = DefaultConfig
    /\ watermark_cache = NoCache
    /\ backend \in Backends
    /\ result = None
    /\ merge = NoMerge
    /\ NoCall
    /\ NoAux

CallApplyWatermark ==
    /\ pc = "idle"
    /\ \E c \in TextConfigs \cup ImageConfigs :
        \E r \in {ApplyWatermark(heap, "image", c, watermark_cache, backend,
                                 ResolveFontWithAliases(FamiliesOf(c)))} :
            /\ pc' = "apply_watermark"
            /\ heap' = r.heap
            /\ result' = r.ret
            /\ config' = r.config
            /\ watermark_cache' = r.cache
            /\ image_size' = r.image_size
            /\ watermark_size' = r.wm_size
            /\ position' = IF c.use_custom_position THEN c.custom_position ELSE NoPosition
            /\ position_type' = c.position_type
            /\ placed' = r.position
            /\ merge' = [dest |-> r.dest, layer |-> r.layer]
            /\ requested' = c
            /\ measured_with' = r.measured_with
            /\ rendered_with' = r.rendered_with
            /\ caught' = r.caught
            /\ raised' = Propagated(r.caught)
            /\ UNCHANGED <<before, backend, auxVars>>

CallAddTextWatermark ==
    /\ pc = "idle"
    /\ \E a \in ({PlainStyle} \X (DirectDims \X DirectDims)) \cup (Styles \X FewDirect),
          rot \in Rotations :
        \E r \in {AddTextWatermark(heap, "image", <<"A", "b">>, a[2], a[1].opacity,
                                   a[1].text_shadow, a[1].text_stroke, rot,
                                   <<1, 0 - 1>>, 1, backend)} :
            /\ pc' = "add_text_watermark"
            /\ heap' = r.heap
            /\ result' = r.ret
            /\ config' = TextConfig(a[1], Grid("bottom-right"), NoResize, rot)
            /\ image_size' = heap["image"].size
            /\ watermark_size' = None
            /\ placed' = a[2]
            /\ merge' = [dest |-> r.dest, layer |-> r.layer]
            /\ requested' = TextConfig(a[1], Grid("bottom-right"), NoResize, rot)
            /\ measured_with' = <<>>
            /\ rendered_with' = <<FontOf(DefaultConfig)>>
            /\ caught' = r.caught
            /\ raised' = Propagated(r.caught)
            /\ UNCHANGED <<position, position_type, before, backend, watermark_cache, auxVars>>

CallAddImageWatermark ==
    /\ pc = "idle"
    /\ \E a \in ({<<"wm.png", 255>>} \X (DirectDims \X DirectDims))
                 \cup ((WatermarkPaths \X {0, 128}) \X FewDirect),
          rot \in Rotations :
        \E r \in {AddImageWatermark(heap, "image", a[1][1], a[2], 100, a[1][2], rot,
                                    watermark_cache, backend)} :
            /\ pc' = "add_image_watermark"
            /\ heap' = r.heap
            /\ result' = r.ret
            /\ config' = ImageConfig(a[1][1], 100, a[1][2], Grid("bottom-right"), NoResize, rot)
            /\ watermark_cache' = r.cache
            /\ image_size' = heap["image"].size
            /\ watermark_size' = None
            /\ placed' = a[2]
            /\ merge' = [dest |-> r.dest, layer |-> r.layer]
            /\ requested' = ImageConfig(a[1][1], 100, a[1][2], Grid("bottom-right"),
                                        NoResize, rot)
            /\ measured_with' = <<>>
            /\ rendered_with' = <<>>
            /\ caught' = r.caught
            /\ raised' = Propagated(r.caught)
            /\ UNCHANGED <<position, position_type, before, backend, auxVars>>

(* the caller drops the returned image and keeps the processor, with its
   watermark cache, and its own image for the next call *)
Return ==
    /\ pc \in {"apply_watermark", "add_text_watermark", "add_image_watermark"}
    /\ pc' = "idle"
    /\ heap' = [EmptyHeap EXCEPT !["image"] = heap["image"]]
    /\ image_size' = None
    /\ watermark_size' = None
    /\ position' = NoPosition
    /\ position_type' = "bottom-right"
    /\ placed' = None
    /\ config' = DefaultConfig
    /\ result' = None
    /\ merge' = NoMerge
    /\ requested' = DefaultConfig
    /\ measured_with' = <<>>
    /\ rendered_with' = <<>>
    /\ caught' = FALSE
    /\ raised' = FALSE
    /\ UNCHANGED <<before, backend, watermark_cache, auxVars>>

Next == CallApplyWatermark \/ CallAddTextWatermark \/ CallAddImageWatermark \/ Return

Spec == EngineInit /\ [][Next]_vars

(* ---------------- the sizes apply_watermark resizes to ---------------- *)
MaxPercentage == 150

ResizeSizes == {<<1, 1>>, <<3, 15>>, <<50, 25>>, <<100, 50>>, <<100, 100>>, <<200, 100>>}
ResizeTargets == {0, 1, 49, 50, 80, 200}

ResizeConfig(enabled, method, width, height, percentage, keep_aspect) ==
    [DefaultConfig EXCEPT !.resize_enabled = enabled, !.resize_method = method,
                          !.resize_width = width, !.resize_height = height,
                          !.resize_percentage = percentage,
                          !.keep_aspect_ratio = keep_aspect]

ResizeConfigs ==
    {ResizeConfig(e, "percentage", 800, 600, p, TRUE) :
        e \in BOOLEAN, p \in 0..MaxPercentage}
    \cup {ResizeConfig(TRUE, m, t[1], t[2], 100, k) :
        m \in {"width", "height", "fit"}, t \in ResizeTargets \X ResizeTargets,
        k \in BOOLEAN}

(* the size of apply_watermark's working copy after the optional resize *)
WorkingSize(size, c) ==
    IF c.resize_enabled /\ c.resize_method \in {"percentage", "width", "height"}
    THEN <<NewWidth(c.resize_method, size, c.resize_width, c.resize_height,
                    c.resize_percentage, c.keep_aspect_ratio),
           NewHeight(c.resize_method, size, c.resize_width, c.resize_height,
                     c.resize_percentage, c.keep_aspect_ratio)>>
    ELSE size

ResizeInit ==
    /\ pc = "idle"
    /\ original_size \in ResizeSizes
    /\ EngineUnused
    /\ NoLater
    /\ NoFontLoad
    /\ NoIndex
    /\ NoExport

(* apply_watermark up to image_size = working.size *)
CallResize ==
    /\ pc = "idle"
    /\ \E c \in ResizeConfigs :
         /\ requested' = c
         /\ image_size' = WorkingSize(original_size, c)
    /\ pc' = "resized"
    /\ UNCHANGED <<watermark_size, position, position_type, placed, engineVars>>
    /\ UNCHANGED <<measured_with, rendered_with, caught, raised, original_size, fontVars>>
    /\ UNCHANGED <<indexVars, exportVars, laterVars>>

SpecResize == ResizeInit /\ [][CallResize]_vars

(* ---------------- loading a font ---------------- *)
(* a font file name: directory, family, style part, extension *)
FontFile(dir, family, label, suffix) == <<dir, family, label, suffix>>

ExplicitPath == FontFile("/custom/", "Custom", "", ".ttf")
DefaultFont == FontFile("", "load_default", "", "")
NoPath == FontFile("", "", "", "")

(* _font_resolver.resolve(font_family, ...): [found, path] *)
Resolve(family) ==
    IF family \in InstalledFamilies
    THEN [found |-> TRUE, path |-> FontFile("/fonts/", family, "", ".ttf")]
    ELSE [found |-> FALSE, path |-> NoPath]

(* the explicit path is used if the style of its font matches or no style
   is asked for *)
StyleAccepted_Always(bold, italic, style) == TRUE

StyleAccepted(bold, italic, style) ==
    \/ (bold => style.bold) /\ (italic => style.italic)
    \/ ~bold /\ ~italic

StyledLabels(bold, italic) ==
    IF bold /\ italic THEN <<" Bold Italic", "-BoldItalic", "BI", "">>
    ELSE IF bold THEN <<" Bold", "-Bold", "B", "">>
    ELSE IF italic THEN <<" Italic", "-Italic", "I", "">>
    ELSE <<"">>

Suffixes == <<"", ".ttf", ".otf", ".ttc">>

(* variant + suffix for every variant and, within it, every suffix *)
StyledVariants(base, labels) ==
    [i \in 1..(Len(labels) * Len(Suffixes)) |->
        FontFile("", base, labels[((i - 1) \div Len(Suffixes)) + 1],
                 Suffixes[((i - 1) % Len(Suffixes)) + 1])]

Fallbacks == <<FontFile("", "arial", "", ".ttf"), FontFile("", "Helvetica", "", ".ttc")>>

(* the names tried after the explicit path, in the order of the code *)
LaterCandidates(family, bold, italic, resolved) ==
    (IF resolved.found THEN <<resolved.path>> ELSE <<>>)
    \o StyledVariants(IF family = "" THEN "Arial" ELSE family, StyledLabels(bold, italic))
    \o Fallbacks

(* the first name of the sequence that loads, the default font if none does *)
LoadFirst(tried, names, files) ==
    IF \E i \in 1..Len(names) : names[i] \in files
    THEN [font |-> names[CHOOSE i \in 1..Len(names) :
                           /\ names[i] \in files
                           /\ \A j \in 1..(i - 1) : names[j] \notin files],
          attempts |-> tried \o SubSeq(names, 1,
                           CHOOSE i \in 1..Len(names) :
                               /\ names[i] \in files
                               /\ \A j \in 1..(i - 1) : names[j] \notin files)]
    ELSE [font |-> DefaultFont, attempts |-> tried \o names \o <<DefaultFont>>]

(* _load_font: [font, attempts] *)
LoadFont(family, bold, italic, font_path, files, style) ==
    IF font_path = NoPath
    THEN LoadFirst(<<>>, LaterCandidates(family, bold, italic, Resolve(family)), files)
    ELSE IF font_path \in files /\ StyleAccepted(bold, italic, style)
    THEN [font |-> font_path, attempts |-> <<font_path>>]
    ELSE LoadFirst(<<font_path>>, LaterCandidates(family, bold, italic, Resolve(family)),
                   files)

(* the files whose presence the model varies *)
FontFiles ==
    {ExplicitPath, FontFile("/fonts/", "Arial", "", ".ttf"),
     FontFile("", "Arial", "-Bold", ".ttf"), FontFile("", "Nope", "", ".ttc"),
     FontFile("", "Helvetica", "", ".ttc")}

FontRequests ==
    [font_family : {"", "Arial", "Nope"}, bold : BOOLEAN, italic : BOOLEAN,
     font_path : {NoPath, ExplicitPath}]

FontInit ==
    /\ pc = "idle"
    /\ loadable \in SUBSET FontFiles
    /\ path_style \in [bold : BOOLEAN, italic : BOOLEAN]
    /\ font_request = None
    /\ attempts = <<>>
    /\ font = None
    /\ original_size = None
    /\ EngineUnused
    /\ NoLater
    /\ NoIndex
    /\ NoExport

CallLoadFont ==
    /\ pc = "idle"
    /\ \E q \in FontRequests :
        \E r \in {LoadFont(q.font_family, q.bold, q.italic, q.font_path, loadable,
                            path_style)} :
            /\ font_request' = q
            /\ attempts' = r.attempts
            /\ font' = r.font
    /\ pc' = "_load_font"
    /\ UNCHANGED <<layoutVars, engineVars, callVars, original_size, loadable, path_style>>
    /\ UNCHANGED <<indexVars, exportVars, laterVars>>

SpecFont == FontInit /\ [][CallLoadFont]_vars

(* ---------------- the font index under two threads ---------------- *)
MaxResolves == 3     \* resolve calls a thread makes

(* the UI thread and the export thread share one ImageProcessor *)
Threads == {"ui", "export"}

(* the font files of the font directory in os.scandir order and what
   getname() returns for them *)
FontDirectory ==
    <<[path |-> "arial.ttf", family |-> "Arial", style |-> "Regular"],
      [path |-> "arialbd.ttf", family |-> "Arial", style |-> "Bold"],
      [path |-> "bahnl.ttf", family |-> "Bahnschrift", style |-> "Light"],
      [path |-> "bahnc.ttf", family |-> "Bahnschrift", style |-> "Condensed"],
      [path |-> "times.ttf", family |-> "Times New Roman", style |-> "Regular"],
      [path |-> "timesi.ttf", family |-> "Times New Roman", style |-> "Italic"]>>

(* str: a string is the sequence of its characters *)
UpperCase == "ABCDEFGHIJKLMNOPQRSTUVWXYZ"
LowerCase == "abcdefghijklmnopqrstuvwxyz"
Digits == "0123456789"
Whitespace == " "

Char(s, i) == SubSeq(s, i, i)
From(s, i) == SubSeq(s, i, Len(s))

(* needle in s *)
Contains(s, needle) ==
    \E i \in 1..(Len(s) - Len(needle) + 1) : SubSeq(s, i, i + Len(needle) - 1) = needle

(* the lower-case letter of each upper-case letter *)
LowerOf ==
    [ch \in {Char(UpperCase, i) : i \in 1..Len(UpperCase)} |->
        Char(LowerCase, CHOOSE i \in 1..Len(UpperCase) : Char(UpperCase, i) = ch)]

Alphanumerics ==
    {Char(UpperCase \o LowerCase \o Digits, i) : i \in 1..Len(UpperCase \o LowerCase \o Digits)}

LowerChar(ch) == IF ch \in DOMAIN LowerOf THEN LowerOf[ch] ELSE ch

(* s.lower() *)
RECURSIVE ToLower(_)
ToLower(s) == IF s = "" THEN "" ELSE LowerChar(Char(s, 1)) \o ToLower(From(s, 2))

(* ch.isalnum() *)
IsAlnum(ch) == ch \in Alphanumerics

(* s.strip() *)
RECURSIVE Strip(_)
Strip(s) ==
    IF s = "" THEN ""
    ELSE IF Contains(Whitespace, Char(s, 1)) THEN Strip(From(s, 2))
    ELSE IF Contains(Whitespace, Char(s, Len(s))) THEN Strip(SubSeq(s, 1, Len(s) - 1))
    ELSE s

(* "".join(ch for ch in s if ch.isalnum()) *)
RECURSIVE Alnums(_)
Alnums(s) ==
    IF s = "" THEN ""
    ELSE (IF IsAlnum(Char(s, 1)) THEN Char(s, 1) ELSE "") \o Alnums(From(s, 2))

(* _normalize_family *)
NormalizeFamily(name) == Alnums(ToLower(name))

(* the keys _store_entry can file the faces of the directory under *)
FamilyKeys ==
    {ToLower(FontDirectory[i].family) : i \in 1..Len(FontDirectory)}
        \cup {NormalizeFamily(FontDirectory[i].family) : i \in 1..Len(FontDirectory)}

FontEntry(file) == [path |-> file.path, style |-> file.style, index |-> 0]

(* _store_entry: the entry is appended under the family and, if it differs,
   under the normalized family *)
StoreEntry(by_family, family, entry) ==
    [k \in FamilyKeys |->
        IF k = ToLower(family) \/ k = NormalizeFamily(family)
        THEN Append(by_family[k], entry)
        ELSE by_family[k]]

(* _index_font_file: (path, index) is skipped if this scan has seen it *)
IndexFontFile(by_family, file, seen_entries) ==
    IF <<file.path, 0>> \in seen_entries
    THEN by_family
    ELSE StoreEntry(by_family, file.family, FontEntry(file))

Idle(resolves) == [pc |-> "idle", resolves |-> resolves, at |-> 0, seen_entries |-> {}]

IndexInit ==
    /\ pc = "idle"
    /\ indexed = FALSE
    /\ fonts_by_family = [k \in FamilyKeys |-> <<>>]
    /\ threads = [t \in Threads |-> Idle(0)]
    /\ scans = 0
    /\ original_size = None
    /\ EngineUnused
    /\ NoLater
    /\ NoFontLoad
    /\ NoExport

(* resolve() up to the test of _indexed in _ensure_index: a lookup if the
   index is built, else the start of a scan with an empty seen_entries *)
EnsureIndex(t) ==
    /\ threads[t].pc = "idle"
    /\ threads[t].resolves < MaxResolves
    /\ IF indexed
       THEN /\ threads' = [threads EXCEPT ![t] = Idle(threads[t].resolves + 1)]
            /\ UNCHANGED scans
       ELSE /\ threads' = [threads EXCEPT ![t] =
                              [pc |-> "scan", resolves |-> threads[t].resolves + 1,
                               at |-> 1, seen_entries |-> {}]]
            /\ scans' = scans + 1
    /\ UNCHANGED <<pc, indexed, fonts_by_family>>
    /\ UNCHANGED <<layoutVars, engineVars, callVars, original_size, fontVars, exportVars, laterVars>>

(* one turn of the loop over os.scandir(directory) *)
ScanEntry(t) ==
    /\ threads[t].pc = "scan"
    /\ threads[t].at <= Len(FontDirectory)
    /\ fonts_by_family' = IndexFontFile(fonts_by_family, FontDirectory[threads[t].at],
                                        threads[t].seen_entries)
    /\ threads' = [threads EXCEPT ![t].at = @ + 1,
                                  ![t].seen_entries =
                                      @ \cup {<<FontDirectory[threads[t].at].path, 0>>}]
    /\ UNCHANGED <<pc, indexed, scans>>
    /\ UNCHANGED <<layoutVars, engineVars, callVars, original_size, fontVars, exportVars, laterVars>>

(* self._indexed = True, and the lookup that follows *)
FinishIndex(t) ==
    /\ threads[t].pc = "scan"
    /\ threads[t].at > Len(FontDirectory)
    /\ indexed' = TRUE
    /\ threads' = [threads EXCEPT ![t] = Idle(threads[t].resolves)]
    /\ UNCHANGED <<pc, fonts_by_family, scans>>
    /\ UNCHANGED <<layoutVars, engineVars, callVars, original_size, fontVars, exportVars, laterVars>>

IndexNext == \E t \in Threads : EnsureIndex(t) \/ ScanEntry(t) \/ FinishIndex(t)

SpecIndex == IndexInit /\ [][IndexNext]_vars

(* ---------------- the export thread ---------------- *)
MaxFiles == 3        \* files of a batch

(* what processing a file runs into: nothing, images.get() returning None,
   an exception out of apply_watermark, an exception out of save *)
Fates == {"ok", "missing", "watermark_raises", "save_fails"}

Batches == UNION {[1..n -> Fates] : n \in 0..MaxFiles}

(* the signals of ExportThread *)
Progress(value) == <<"progress", value, 0>>
Finished(successes, total) == <<"finished", successes, total>>
Error(file) == <<"error", file, 0>>

(* the file the loop goes to after file i *)
NextFile_Abort(i, total, fate) == IF fate = "ok" THEN i + 1 ELSE total + 1

NextFile(i, total, fate) == i + 1

(* the signals one turn of the loop emits for file i *)
Emitted(i, total, fate) ==
    (IF fate = "ok" THEN <<>> ELSE <<Error(i)>>) \o <<Progress((i * 100) \div total)>>

ExportInit ==
    /\ pc = "idle"
    /\ file_fates \in Batches
    /\ next_file = 0
    /\ signals = <<>>
    /\ success_count = 0
    /\ original_size = None
    /\ EngineUnused
    /\ NoLater
    /\ NoFontLoad
    /\ NoIndex

(* run(): success_count = 0; total_count = len(self.file_paths) *)
StartRun ==
    /\ pc = "idle"
    /\ pc' = "run"
    /\ next_file' = 1
    /\ success_count' = 0
    /\ UNCHANGED <<file_fates, signals>>
    /\ UNCHANGED <<layoutVars, engineVars, callVars, original_size, fontVars, indexVars, laterVars>>

(* one turn of the loop: the try block, its except clause and the progress *)
ExportFile ==
    /\ pc = "run"
    /\ next_file <= Len(file_fates)
    /\ success_count' = IF file_fates[next_file] = "ok" THEN success_count + 1
                        ELSE success_count
    /\ signals' = signals \o Emitted(next_file, Len(file_fates), file_fates[next_file])
    /\ next_file' = NextFile(next_file, Len(file_fates), file_fates[next_file])
    /\ UNCHANGED <<pc, file_fates>>
    /\ UNCHANGED <<layoutVars, engineVars, callVars, original_size, fontVars, indexVars, laterVars>>

(* self.finished.emit(success_count, total_count) *)
FinishRun ==
    /\ pc = "run"
    /\ next_file > Len(file_fates)
    /\ signals' = Append(signals, Finished(success_count, Len(file_fates)))
    /\ pc' = "finished"
    /\ UNCHANGED <<file_fates, next_file, success_count>>
    /\ UNCHANGED <<layoutVars, engineVars, callVars, original_size, fontVars, indexVars, laterVars>>

ExportNext == StartRun \/ ExportFile \/ FinishRun

SpecExport == ExportInit /\ [][ExportNext]_vars

(* ---------------- claims about Layout ---------------- *)

(* ---------------- placement in the preview ---------------- *)
PlacementInit ==
    /\ pc = "idle"
    /\ image_size \in CanvasDims \X CanvasDims
    /\ watermark_size \in WmDims \X WmDims
    /\ position = NoPosition
    /\ position_type = "bottom-right"
    /\ placed = None
    /\ preview_position = None
    /\ PreviewOnly

(* the custom position p clamped for the export and for the preview *)
PlaceCustom ==
    /\ pc = "idle"
    /\ \E p \in {NoPosition} \cup (RequestsOn(image_size[1]) \X RequestsOn(image_size[2])) :
         /\ position' = p
         /\ placed' = ClampPosition(p, image_size, watermark_size)
         /\ preview_position' = ClampPositionToImage(p, image_size, watermark_size)
    /\ pc' = "custom"
    /\ UNCHANGED <<image_size, watermark_size, position_type>>
    /\ UNCHANGED <<engineVars, callVars, original_size, fontVars, indexVars, exportVars>>
    /\ UNCHANGED <<libraryVars, scoreVars, resolverVars, boundsVars, viewVars>>

(* the anchor a placed for the export and for the preview *)
PlaceAtAnchor ==
    /\ pc = "idle"
    /\ \E a \in Anchors \cup {"unknown"} :
         /\ position_type' = a
         /\ placed' = GridPosition(image_size, watermark_size, a, DefaultMargin)
         /\ preview_position' = DefaultWatermarkPosition(image_size, watermark_size, a)
    /\ pc' = "anchor"
    /\ UNCHANGED <<image_size, watermark_size, position>>
    /\ UNCHANGED <<engineVars, callVars, original_size, fontVars, indexVars, exportVars>>
    /\ UNCHANGED <<libraryVars, scoreVars, resolverVars, boundsVars, viewVars>>

PlacementNext == PlaceCustom \/ PlaceAtAnchor

SpecPlacement == PlacementInit /\ [][PlacementNext]_vars

(* ---------------- the preview view ---------------- *)
ViewSizes == {<<6, 4>>, <<3, 3>>}
ItemSizes == {<<1, 1>>, <<2, 1>>, <<4, 2>>}
ViewRotations == {0 - 135, 0 - 45, 0, 45, 90, 180}

PreviewCalls(size) ==
    [kind : ItemKinds, size : ItemSizes, rotation : ViewRotations,
     position : {NoPosition} \cup ((0..size[1]) \X (0..size[2]))]

(* the state of the main window around the view *)
windowVars ==
    <<use_custom_position, custom_watermark_position, pending_preset_position,
      suppress_watermark_position_signal, suspend_position_emission, ignore_next_bound,
      timers, dragging, preview_timer>>

(* MainWindow.__init__ and PreviewGraphicsView.__init__ *)
WindowInit ==
    /\ use_custom_position = FALSE
    /\ custom_watermark_position = NoPosition
    /\ pending_preset_position = FALSE
    /\ suppress_watermark_position_signal = FALSE
    /\ suspend_position_emission = FALSE
    /\ ignore_next_bound = FALSE
    /\ timers = <<>>
    /\ dragging = FALSE
    /\ preview_timer = FALSE

(* set_image(pixmap) has run: the image item spans the pixmap *)
ViewInit ==
    /\ pc = "idle"
    /\ original_image_size \in ViewSizes
    /\ watermark_item = None
    /\ preview_call = None
    /\ reported = None
    /\ WindowInit
    /\ ViewOnly

AddWatermarkPreview ==
    /\ pc = "idle"
    /\ \E call \in PreviewCalls(original_image_size) :
         /\ preview_call' = call
         /\ watermark_item' =
                PreviewItem(call.kind, BoundingRect(call.kind, call.size), call.rotation,
                            DesiredCenter(call.position, original_image_size,
                                          original_image_size),
                            original_image_size)
    /\ pc' = "add_watermark_preview"
    /\ UNCHANGED <<original_image_size, reported, windowVars, notViewVars>>

GetWatermarkPosition ==
    /\ pc = "add_watermark_preview"
    /\ reported' = ToImage(SceneCenter(watermark_item,
                                       TurnedCorners(watermark_item.rect,
                                                     watermark_item.rotation)),
                           original_image_size, original_image_size)
    /\ pc' = "get_watermark_position"
    /\ UNCHANGED <<original_image_size, watermark_item, preview_call, windowVars, notViewVars>>

ViewNext == AddWatermarkPreview \/ GetWatermarkPosition

SpecView == ViewInit /\ [][ViewNext]_vars

(* the main window and its preview: refreshes, timers and the user's mouse *)
MaxTimers == 4
WindowSizes == {<<46, 46>>}
WindowItemSizes == {<<4, 2>>}
WindowRotations == {0, 90}
WindowAnchors == {"bottom-right", "center"}
DragCenters == {<<10, 10>>, <<1, 45>>}

(* the scene holds no watermark item *)
NoItem ==
    [kind |-> "none", rect |-> BoundingRect("text", <<0, 0>>), origin |-> <<0, 0>>,
     rotation |-> 0, pos |-> <<0, 0>>]

(* the center the view reports for item, in pixels of the original image *)
ReportedCenter(item, size) ==
    ToImage(SceneCenter(item, TurnedCorners(item.rect, item.rotation)), size, size)

(* the window is shown with an image selected and nothing drawn on it yet *)
WindowStart ==
    /\ pc = "idle"
    /\ original_image_size \in WindowSizes
    /\ watermark_item = NoItem
    /\ preview_call = None
    /\ reported = NoPosition
    /\ WindowInit
    /\ EarlierUnused /\ NoLibrary /\ NoScore /\ NoResolver /\ NoBounds /\ NoPreview

(* update_preview with a watermark to show, add_watermark_preview included *)
RefreshWith(kind, size, rotation, anchor) ==
    LET at == IF use_custom_position /\ custom_watermark_position # NoPosition
              THEN ClampPositionToImage(<<2 * custom_watermark_position[1],
                                          2 * custom_watermark_position[2]>>,
                                        original_image_size, size)
              ELSE DefaultWatermarkPosition(original_image_size, size, anchor)
        pending == ~(use_custom_position /\ custom_watermark_position # NoPosition)
    IN  /\ pending_preset_position' = pending
        /\ suppress_watermark_position_signal' = TRUE
        /\ suspend_position_emission' = TRUE
        /\ ignore_next_bound' = TRUE
        /\ preview_call' = [kind |-> kind, size |-> size, rotation |-> rotation,
                            position |-> at]
        /\ watermark_item' =
               PreviewItem(kind, BoundingRect(kind, size), rotation,
                           DesiredCenter(at, original_image_size, original_image_size),
                           original_image_size)
        /\ timers' = timers \o <<"_resume_position_emission",
                                  "_clear_watermark_position_suppression">>
                            \o (IF pending THEN <<"_clear_pending_preset_position">>
                                ELSE <<>>)

(* update_preview with an empty text or a missing watermark image *)
RefreshEmpty ==
    /\ pending_preset_position' = FALSE
    /\ watermark_item' = NoItem
    /\ timers' = Append(timers, "_clear_watermark_position_suppression")
    /\ UNCHANGED <<suppress_watermark_position_signal, suspend_position_emission,
                   ignore_next_bound, preview_call>>

(* MainWindow.update_preview *)
UpdatePreview ==
    /\ Len(timers) + 3 <= MaxTimers
    /\ \/ RefreshEmpty
       \/ \E kind \in ItemKinds, size \in WindowItemSizes, rotation \in WindowRotations,
             anchor \in WindowAnchors : RefreshWith(kind, size, rotation, anchor)
    /\ dragging' = FALSE
    /\ pc' = "update_preview"
    /\ UNCHANGED <<use_custom_position, custom_watermark_position, original_image_size,
                   reported, notViewVars>>

(* on_image_selected: the preview is refreshed at once *)
SelectImage ==
    /\ UpdatePreview
    /\ UNCHANGED preview_timer

(* preview_timer times out *)
PreviewTimerFires ==
    /\ preview_timer
    /\ preview_timer' = FALSE
    /\ UpdatePreview

(* the oldest zero-delay timer fires *)
FireTimer ==
    /\ timers # <<>>
    /\ timers' = Tail(timers)
    /\ suspend_position_emission' =
           IF Head(timers) = "_resume_position_emission"
           THEN FALSE ELSE suspend_position_emission
    /\ suppress_watermark_position_signal' =
           IF Head(timers) = "_clear_watermark_position_suppression"
           THEN FALSE ELSE suppress_watermark_position_signal
    /\ pending_preset_position' =
           IF Head(timers) = "_clear_pending_preset_position"
           THEN FALSE ELSE pending_preset_position
    /\ pc' = "timer"
    /\ UNCHANGED <<use_custom_position, custom_watermark_position, ignore_next_bound,
                   dragging, preview_timer, original_image_size, watermark_item,
                   preview_call, reported, notViewVars>>

(* MainWindow.on_watermark_position_changed(at) *)
OnWatermarkPositionChanged(at) ==
    IF pending_preset_position
    THEN /\ pending_preset_position' = FALSE
         /\ custom_watermark_position' = NoPosition
         /\ use_custom_position' = FALSE
    ELSE IF suppress_watermark_position_signal
    THEN UNCHANGED <<pending_preset_position, custom_watermark_position,
                     use_custom_position>>
    ELSE /\ custom_watermark_position' = at
         /\ use_custom_position' = TRUE
         /\ UNCHANGED pending_preset_position

(* a mouse move drags the item towards center: the item's setPos runs
   _on_watermark_position_change for both changes *)
DragMove ==
    /\ watermark_item.kind # "none"
    /\ \E center \in DragCenters :
         LET wanted == PosFor(<<2 * center[1], 2 * center[2]>>, watermark_item.origin)
             moved == [watermark_item EXCEPT
                          !.pos = IF ignore_next_bound THEN wanted
                                  ELSE ItemChange(wanted, watermark_item.rect,
                                                  original_image_size)]
         IN  /\ watermark_item' = moved
             /\ IF suspend_position_emission
                THEN UNCHANGED <<pending_preset_position, custom_watermark_position,
                                 use_custom_position, reported>>
                ELSE /\ reported' = ReportedCenter(moved, original_image_size)
                     /\ OnWatermarkPositionChanged(
                            ReportedCenter(moved, original_image_size))
    /\ ignore_next_bound' = FALSE
    /\ dragging' = TRUE
    /\ pc' = "drag_move"
    /\ UNCHANGED <<suppress_watermark_position_signal, suspend_position_emission, timers,
                   preview_timer, original_image_size, preview_call, notViewVars>>

(* the mouse button is released: the drag is over *)
DragRelease ==
    /\ dragging
    /\ dragging' = FALSE
    /\ pc' = "drag_release"
    /\ UNCHANGED <<use_custom_position, custom_watermark_position,
                   pending_preset_position, suppress_watermark_position_signal,
                   suspend_position_emission, ignore_next_bound, timers, preview_timer,
                   original_image_size, watermark_item, preview_call, reported,
                   notViewVars>>

(* MainWindow.on_position_button_clicked for one of the nine buttons *)
ClickPositionButton ==
    /\ use_custom_position' = FALSE
    /\ custom_watermark_position' = NoPosition
    /\ preview_timer' = TRUE
    /\ pc' = "position_button"
    /\ UNCHANGED <<pending_preset_position, suppress_watermark_position_signal,
                   suspend_position_emission, ignore_next_bound, timers, dragging,
                   original_image_size, watermark_item, preview_call, reported,
                   notViewVars>>

WindowNext ==
    \/ SelectImage
    \/ PreviewTimerFires
    \/ FireTimer
    \/ DragMove
    \/ DragRelease
    \/ ClickPositionButton

SpecWindow == WindowStart /\ [][WindowNext]_vars

(* ---------------- the rotated bounding box ---------------- *)
MaxSide == 8         \* width and height of the box turned

BoundsRotations == {0, 360, -360, 720, 90, -90, 180, -180, 270, 450, 45, -45, 135, 225}

BoundsInit ==
    /\ pc = "idle"
    /\ bounds_call \in [width : 1..MaxSide, height : 1..MaxSide, rotation : BoundsRotations]
    /\ bounds = None
    /\ BoundsOnly

CallRotatedBounds ==
    /\ pc = "idle"
    /\ pc' = "rotated_bounds"
    /\ bounds' = RotatedBounds(bounds_call.width, bounds_call.height, bounds_call.rotation)
    /\ UNCHANGED <<bounds_call, notBoundsVars>>

SpecBounds == BoundsInit /\ [][CallRotatedBounds]_vars

(* ---------------- font face scoring ---------------- *)
(* style strings font files carry *)
ScoreStyles ==
    {"", " ", "Regular", "Bold", "Italic", "Bold Italic", "Oblique", "Bold Oblique",
     "Black", "Heavy", "Demi", "DemiBold", "SemiBold", "Semibold Italic", "Medium",
     "Light", "SemiLight", "SemiLight Italic", "Semi Condensed", "Condensed",
     "Slanted", "BOLD", "Regular Italic", "Book", "Thin", "ExtraLight", "Roman"}

(* any(token in style_lower for token in tokens) *)
HasToken(style_lower, tokens) == \E i \in 1..Len(tokens) : Contains(style_lower, tokens[i])

bold_tokens == <<"bold", "black", "heavy", "demi", "semi", "semibold", "medium">>
italic_tokens == <<"italic", "oblique", "slant", "slanted">>

(* the score after the four ifs on bold and italic *)
StyleScore(bold, italic, has_bold, has_italic) ==
    (IF bold = has_bold THEN 2 ELSE 0) + (IF italic = has_italic THEN 2 ELSE 0)
    + (IF bold /\ has_bold THEN 1 ELSE 0) + (IF italic /\ has_italic THEN 1 ELSE 0)

(* the last if: a plain request and a regular or blank style *)
RegularScore(style_lower, bold, italic) ==
    IF ~bold /\ ~italic /\ (Contains(style_lower, "regular") \/ Strip(style_lower) = "")
    THEN 1 ELSE 0

(* _score_entry *)
ScoreEntry(style, bold, italic) ==
    StyleScore(bold, italic, HasToken(ToLower(style), bold_tokens),
               HasToken(ToLower(style), italic_tokens))
    + RegularScore(ToLower(style), bold, italic)

ScoreInit ==
    /\ pc = "idle"
    /\ score_call \in [style : ScoreStyles, bold : BOOLEAN, italic : BOOLEAN]
    /\ score = 0
    /\ ScoreOnly

CallScoreEntry ==
    /\ pc = "idle"
    /\ pc' = "score_entry"
    /\ score' = ScoreEntry(score_call.style, score_call.bold, score_call.italic)
    /\ UNCHANGED <<score_call, notScoreVars>>

SpecScore == ScoreInit /\ [][CallScoreEntry]_vars

(* ---------------- font face lookup ---------------- *)
MaxLookups == 2      \* resolve calls made

ResolveFamilies == {"bahnschrift", "Times-New-Roman", "Nope", ""}
ResolveRequests == {<<FALSE, FALSE>>, <<TRUE, FALSE>>, <<TRUE, TRUE>>}
ResolveHints == {"", " Condensed ", "l"}

(* what resolve returns: None or (path, index) *)
NotFound == [found |-> FALSE, path |-> "", index |-> 0]
Found(entry) == [found |-> TRUE, path |-> entry.path, index |-> entry.index]

(* _ensure_index run to its end by one thread *)
RECURSIVE ScanFrom(_, _, _)
ScanFrom(by_family, at, seen_entries) ==
    IF at > Len(FontDirectory) THEN by_family
    ELSE ScanFrom(IndexFontFile(by_family, FontDirectory[at], seen_entries), at + 1,
                  seen_entries \cup {<<FontDirectory[at].path, 0>>})

BuiltIndex == ScanFrom([k \in FamilyKeys |-> <<>>], 1, {})

(* _fonts_by_family.get(key): no entry reads as an empty list *)
Get(by_family, key) == IF key \in DOMAIN by_family THEN by_family[key] ELSE <<>>

(* the entries under family.lower(), else under the normalized family *)
EntriesOf(by_family, family) ==
    IF Get(by_family, ToLower(family)) # <<>> THEN Get(by_family, ToLower(family))
    ELSE IF NormalizeFamily(family) # "" THEN Get(by_family, NormalizeFamily(family))
    ELSE <<>>

(* target_style *)
TargetStyle(style_name) == Strip(ToLower(style_name))

(* what the style hint adds to the score of an entry *)
HintScore(style, target_style) ==
    IF target_style = "" THEN 0
    ELSE IF ToLower(style) = target_style THEN 5
    ELSE IF Contains(ToLower(style), target_style) THEN 3
    ELSE 0

(* if score > best_score *)
Better_OrEqual(total, best_score) == total >= best_score

Better(total, best_score) == total > best_score

(* the loop over entries from entry i on: the place of best_entry, 0 for None *)
RECURSIVE BestEntry(_, _, _, _, _, _, _)
BestEntry(entries, bold, italic, target_style, i, best_entry, best_score) ==
    IF i > Len(entries) THEN best_entry
    ELSE IF Better(ScoreEntry(entries[i].style, bold, italic)
                     + HintScore(entries[i].style, target_style), best_score)
    THEN BestEntry(entries, bold, italic, target_style, i + 1, i,
                   ScoreEntry(entries[i].style, bold, italic)
                     + HintScore(entries[i].style, target_style))
    ELSE BestEntry(entries, bold, italic, target_style, i + 1, best_entry, best_score)

(* if best_entry is None: best_entry = entries[0] *)
Chosen(entries, best_entry) == IF best_entry = 0 THEN entries[1] ELSE entries[best_entry]

(* resolve past the cache, over the entries found *)
LookupIn(entries, bold, italic, target_style) ==
    IF entries = <<>> THEN NotFound
    ELSE Found(Chosen(entries, BestEntry(entries, bold, italic, target_style, 1, 0, -1)))

Lookup(by_family, family, bold, italic, style_name) ==
    LookupIn(EntriesOf(by_family, family), bold, italic, TargetStyle(style_name))

(* key = (family.lower(), bool(bold), bool(italic), target_style) *)
CacheKey_NoStyle(family, bold, italic, style_name) == <<ToLower(family), bold, italic, "">>

CacheKey(family, bold, italic, style_name) ==
    <<ToLower(family), bold, italic, TargetStyle(style_name)>>

(* self._cache[key] = value *)
Store(memo, key, value) ==
    [k \in DOMAIN memo \cup {key} |-> IF k = key THEN value ELSE memo[k]]

ResolveInit ==
    /\ pc = "idle"
    /\ indexed = TRUE
    /\ fonts_by_family = BuiltIndex
    /\ threads = <<>>
    /\ scans = 1
    /\ cache = <<>>
    /\ resolve_call = None
    /\ resolve_result = None
    /\ first_results = <<>>
    /\ lookups = 0
    /\ ResolverOnly

(* resolve with the arguments call, key being its cache key *)
ResolveWith(call, key) ==
    /\ resolve_call' = call
    /\ IF call.family = ""
       THEN /\ resolve_result' = NotFound
            /\ UNCHANGED <<cache, first_results>>
       ELSE /\ IF key \in DOMAIN cache
               THEN /\ resolve_result' = cache[key]
                    /\ UNCHANGED cache
               ELSE /\ resolve_result' = Lookup(fonts_by_family, call.family, call.bold,
                                                call.italic, call.style_name)
                    /\ cache' = Store(cache, key, resolve_result')
            /\ first_results' = IF key \in DOMAIN first_results THEN first_results
                                ELSE Store(first_results, key, resolve_result')

CallResolve ==
    /\ lookups < MaxLookups
    /\ \E family \in ResolveFamilies, request \in ResolveRequests, style_name \in ResolveHints :
         ResolveWith([family |-> family, bold |-> request[1], italic |-> request[2],
                      style_name |-> style_name],
                     CacheKey(family, request[1], request[2], style_name))
    /\ lookups' = lookups + 1
    /\ pc' = "resolve"
    /\ UNCHANGED notResolverVars

SpecResolve == ResolveInit /\ [][CallResolve]_vars

(* ---------------- the loaded images ---------------- *)
(* files on disk: images, a file that is no image format, a file that
   Image.open cannot read; any other path does not exist *)
ImageFiles == {"a.png", "b.jpg", "c.png"}
DiskFiles == ImageFiles \cup {"notes.txt", "torn.png"}
CallPaths == DiskFiles \cup {"gone.png"}

(* the keys of a dict kept as the sequence of its keys in insertion order *)
Keys(dict) == {dict[i] : i \in 1..Len(dict)}

(* del dict[key] *)
Without(dict, key) == SelectSeq(dict, LAMBDA k : k # key)

(* dict[key] = value: a new key goes last, a known key keeps its place *)
WithKey(dict, key) == IF key \in Keys(dict) THEN dict ELSE Append(dict, key)

(* load_image succeeds: the file exists, has a supported suffix and opens *)
Loads(file_path) == file_path \in ImageFiles

(* the current image after del self.images[file_path], remaining being the
   keys that are left *)
CurrentAfterRemove_Last(current, file_path, remaining) ==
    IF current # file_path THEN current
    ELSE IF remaining # <<>> THEN remaining[Len(remaining)]
    ELSE None

CurrentAfterRemove(current, file_path, remaining) ==
    IF current # file_path THEN current
    ELSE IF remaining # <<>> THEN remaining[1]
    ELSE None

(* what export_image returns: the function ends after its first if *)
ExportReturns(file_path, loaded) ==
    IF file_path \notin loaded THEN "False" ELSE "None"

LibraryInit ==
    /\ pc = "idle"
    /\ images = <<>>
    /\ current_image_path = None
    /\ call_path = None
    /\ returned = None
    /\ saved = {}
    /\ LibraryOnly

LoadImage ==
    /\ \E file_path \in CallPaths :
         /\ call_path' = file_path
         /\ IF Loads(file_path)
            THEN /\ images' = WithKey(images, file_path)
                 /\ current_image_path' = IF current_image_path = None THEN file_path
                                          ELSE current_image_path
                 /\ returned' = "True"
            ELSE /\ returned' = "False"
                 /\ UNCHANGED <<images, current_image_path>>
    /\ pc' = "load_image"
    /\ UNCHANGED <<saved, notLibraryVars>>

SetCurrentImage ==
    /\ \E file_path \in CallPaths :
         /\ call_path' = file_path
         /\ IF file_path \in Keys(images)
            THEN /\ current_image_path' = file_path
                 /\ returned' = "True"
            ELSE /\ returned' = "False"
                 /\ UNCHANGED current_image_path
    /\ pc' = "set_current_image"
    /\ UNCHANGED <<images, saved, notLibraryVars>>

RemoveImage ==
    /\ \E file_path \in CallPaths :
         /\ call_path' = file_path
         /\ IF file_path \in Keys(images)
            THEN /\ images' = Without(images, file_path)
                 /\ current_image_path' =
                        CurrentAfterRemove(current_image_path, file_path,
                                           Without(images, file_path))
                 /\ returned' = "True"
            ELSE /\ returned' = "False"
                 /\ UNCHANGED <<images, current_image_path>>
    /\ pc' = "remove_image"
    /\ UNCHANGED <<saved, notLibraryVars>>

ClearImages ==
    /\ images' = <<>>
    /\ current_image_path' = None
    /\ call_path' = None
    /\ returned' = None
    /\ pc' = "clear_images"
    /\ UNCHANGED <<saved, notLibraryVars>>

ExportImage ==
    /\ \E file_path \in CallPaths :
         /\ call_path' = file_path
         /\ returned' = ExportReturns(file_path, Keys(images))
    /\ pc' = "export_image"
    /\ UNCHANGED <<images, current_image_path, saved, notLibraryVars>>

LibraryNext == LoadImage \/ SetCurrentImage \/ RemoveImage \/ ClearImages \/ ExportImage

SpecLibrary == LibraryInit /\ [][LibraryNext]_vars

FitsCanvas == watermark_size[1] <= image_size[1] /\ watermark_size[2] <= image_size[2]

(* the box of watermark_size centred on placed lies inside the canvas *)
BoxInsideCanvas ==
    /\ 2 * placed[1] - watermark_size[1] >= 0
    /\ 2 * placed[1] + watermark_size[1] <= 2 * image_size[1]
    /\ 2 * placed[2] - watermark_size[2] >= 0
    /\ 2 * placed[2] + watermark_size[2] <= 2 * image_size[2]

(* C1: for a watermark no larger than the canvas and any requested center,
   the rounded center returned by _clamp_position keeps the whole box inside
   the canvas. *)
C1_ClampContainment ==
    (pc = "clamped" /\ position # NoPosition /\ FitsCanvas) => BoxInsideCanvas

(* C2: on an axis where the watermark is larger than the canvas,
   _clamp_position returns the rounded canvas midpoint whatever the requested
   center; an axis where it fits is clamped to [half, size - half] and
   rounded. *)
C2_ClampMidpointCollapse ==
    (pc = "clamped" /\ position # NoPosition) =>
        \A i \in {1, 2} :
            IF watermark_size[i] > image_size[i]
            THEN placed[i] = RoundHalfEven(image_size[i])
            ELSE /\ 2 * placed[i] >= watermark_size[i] - 1
                 /\ 2 * placed[i] <= 2 * image_size[i] - watermark_size[i] + 1
                 /\ (position[i] >= watermark_size[i]
                       /\ position[i] <= 2 * image_size[i] - watermark_size[i])
                    => placed[i] = RoundHalfEven(position[i])

C2_Witness ==
    /\ pc = "clamped"
    /\ position # NoPosition
    /\ watermark_size[1] > image_size[1]
    /\ watermark_size[2] <= image_size[2]
    /\ position[1] > 2 * image_size[1]
    /\ position[2] < watermark_size[2]
    /\ placed[1] = RoundHalfEven(image_size[1])

(* C3: for each of the nine anchors and a watermark no larger than the
   canvas, the center returned by _calculate_grid_position keeps the whole
   box inside the canvas. *)
C3_GridContainment ==
    (pc = "grid" /\ position_type \in Anchors /\ FitsCanvas) => BoxInsideCanvas

Roomy ==
    /\ watermark_size[1] <= image_size[1] - 2 * DefaultMargin
    /\ watermark_size[2] <= image_size[2] - 2 * DefaultMargin

(* C4: when the watermark leaves room for both margins, the box edge on each
   near side named by the anchor lies margin pixels from that canvas edge
   within 1 px, and on a center/middle axis the center is the (rounded)
   canvas midpoint. *)
C4_GridMarginPlacement ==
    (pc = "grid" /\ position_type \in Anchors /\ Roomy) =>
        /\ position_type \in LeftAnchors =>
             Abs(2 * placed[1] - watermark_size[1] - 2 * DefaultMargin) <= 2
        /\ position_type \in RightAnchors =>
             Abs(2 * image_size[1] - 2 * placed[1] - watermark_size[1]
                   - 2 * DefaultMargin) <= 2
        /\ position_type \notin (LeftAnchors \cup RightAnchors) =>
             placed[1] = RoundHalfEven(image_size[1])
        /\ position_type \in TopAnchors =>
             Abs(2 * placed[2] - watermark_size[2] - 2 * DefaultMargin) <= 2
        /\ position_type \in BottomAnchors =>
             Abs(2 * image_size[2] - 2 * placed[2] - watermark_size[2]
                   - 2 * DefaultMargin) <= 2
        /\ position_type \notin (TopAnchors \cup BottomAnchors) =>
             placed[2] = RoundHalfEven(image_size[2])

C4_Witness ==
    /\ pc = "grid"
    /\ position_type = "bottom-right"
    /\ Roomy
    /\ watermark_size[1] >= 3
    /\ watermark_size[2] >= 3
    /\ 2 * (image_size[1] - placed[1]) = watermark_size[1] + 2 * DefaultMargin
    /\ 2 * (image_size[2] - placed[2]) = watermark_size[2] + 2 * DefaultMargin

(* C5: on an axis where the watermark exceeds canvas - 2*margin, the far
   bound is not below the near bound and both are the canvas midpoint, so
   the left and the right (top and bottom) anchors return the midpoint. *)
C5_GridDegenerateMidpoint ==
    (pc = "grid" /\ position_type \in Anchors) =>
        /\ GridPosition(image_size, watermark_size, "top-right", DefaultMargin)[1]
             >= GridPosition(image_size, watermark_size, "top-left", DefaultMargin)[1]
        /\ (watermark_size[1] > image_size[1] - 2 * DefaultMargin
              /\ position_type \in (LeftAnchors \cup RightAnchors))
           => placed[1] = RoundHalfEven(image_size[1])
        /\ (watermark_size[2] > image_size[2] - 2 * DefaultMargin
              /\ position_type \in (TopAnchors \cup BottomAnchors))
           => placed[2] = RoundHalfEven(image_size[2])

(* C6: for every canvas and watermark size the centers of 'top-left' and
   'top-right' have the same y, and x coordinates that add up to the canvas
   width within 1 px. *)
C6_GridSymmetry ==
    (pc = "grid" /\ position_type = "top-left") =>
        LET right == GridPosition(image_size, watermark_size, "top-right", DefaultMargin)
        IN  /\ placed[2] = right[2]
            /\ Abs(placed[1] + right[1] - image_size[1]) <= 1

(* ---------------- claims about the Compositor ---------------- *)
Merged == pc \in {"apply_watermark", "add_text_watermark", "add_image_watermark"}
            /\ merge.dest # NoPosition

(* the top-left the merge step has to use for the center it was given *)
ExpectedDest ==
    <<RoundHalfEven(2 * placed[1] - merge.layer.size[1]),
      RoundHalfEven(2 * placed[2] - merge.layer.size[2])>>

(* the requested center needs no clamping and the layer around it lies
   inside the canvas *)
FitsAround ==
    \A i \in {1, 2} :
        /\ position[i] >= watermark_size[i]
        /\ position[i] <= 2 * image_size[i] - watermark_size[i]
        /\ position[i] - merge.layer.size[i] >= 0
        /\ position[i] + merge.layer.size[i] <= 2 * image_size[i]

(* C7: a custom position at which the watermark fits inside the canvas is the
   center of the composited layer: the layer is merged with its top-left at
   round(P - layerSize/2) (exactly so for a whole-pixel P), so its center is
   within 1 px of P on both axes, for text and image watermarks and any
   rotation. *)
C7_CustomPositionIsCenter ==
    (pc = "apply_watermark" /\ merge.dest # NoPosition /\ position # NoPosition /\ FitsAround) =>
        /\ result = "composite"
        /\ \A i \in {1, 2} :
             /\ Abs(2 * merge.dest[i] + merge.layer.size[i] - position[i]) <= 2
             /\ position[i] % 2 = 0 =>
                  merge.dest[i] = RoundHalfEven(position[i] - merge.layer.size[i])

C7_Witness ==
    /\ pc = "apply_watermark"
    /\ merge.dest # NoPosition
    /\ config.watermark_type = "text"
    /\ config.rotation_angle = 45
    /\ position = <<4, 4>>
    /\ FitsAround
    /\ merge.layer.size = <<4, 3>>
    /\ merge.dest = <<0, 0>>
    /\ result = "composite"

(* the call of the test: an image watermark turned by 45 degrees at scale 1.0
   and full opacity, on the image as passed in, at a custom position *)
RotationTestCall ==
    /\ pc = "apply_watermark"
    /\ config.watermark_type = "image"
    /\ config.image_watermark_path = "wm.png"
    /\ config.image_scale = 100
    /\ config.image_opacity = 255
    /\ config.rotation_angle = 45
    /\ ~config.resize_enabled
    /\ position # NoPosition

(* the base image with the turned source watermark composited at dest *)
ExpectedAt(dest) ==
    AlphaComposite(ConvertRGBA(before),
                   AlphaCompositeAt(NewImage("RGBA", before.size, Transparent),
                                    Rotate(WatermarkSource, config.rotation_angle),
                                    dest))

(* C8 as stated: the result equals the base image composited with the turned
   source watermark whose top-left corner is at the custom position itself. *)
C8_DestIsCustomPosition ==
    (RotationTestCall /\ \A i \in {1, 2} : position[i] % 2 = 0 /\ position[i] >= 0) =>
        heap[result] = ExpectedAt(<<position[1] \div 2, position[2] \div 2>>)

(* C8 amended: the top-left corner is at round(c - layerSize/2), c being the
   custom position clamped by _clamp_position for the measured size; when
   that corner is negative on an axis and the backend rejects a negative
   destination, the image is returned without the watermark. *)
C8_DestIsCenterMinusHalf ==
    RotationTestCall =>
        LET turned == Rotate(WatermarkSource, 45)
            c == ClampPosition(position, before.size, RotatedBounds(3, 2, 45))
            dest == <<RoundHalfEven(2 * c[1] - turned.size[1]),
                      RoundHalfEven(2 * c[2] - turned.size[2])>>
        IN  IF (dest[1] < 0 \/ dest[2] < 0) /\ NegativeDestRaises(backend)
            THEN heap[result] = before
            ELSE heap[result] = ExpectedAt(dest)

C8_Witness ==
    /\ RotationTestCall
    /\ position = <<4, 4>>
    /\ before.size = <<MaxImg, MaxImg - 1>>
    /\ result = "composite"
    /\ merge.dest = <<0, 0>>
    /\ heap[result].px # before.px

(* the rectangle of the layer at ExpectedDest misses the canvas *)
NoOverlap ==
    \/ ExpectedDest[1] >= image_size[1]
    \/ ExpectedDest[1] + merge.layer.size[1] <= 0
    \/ ExpectedDest[2] >= image_size[2]
    \/ ExpectedDest[2] + merge.layer.size[2] <= 0

(* C9: when the destination rectangle (top-left round(center - layerSize/2),
   size of the layer) does not intersect the canvas, add_text_watermark and
   add_image_watermark return an image of the same size and with the same
   pixels as the image passed in. *)
C9_NoOverlapIsNoOp ==
    (pc \in {"add_text_watermark", "add_image_watermark"} /\ merge.dest # NoPosition /\ NoOverlap) =>
        /\ result # None
        /\ heap[result].size = before.size
        /\ heap[result].px = before.px

C9_Witness ==
    /\ pc = "add_text_watermark"
    /\ merge.dest # NoPosition
    /\ NoOverlap
    /\ ExpectedDest[1] + merge.layer.size[1] <= 0
    /\ \E c \in Coords(merge.layer.size) : merge.layer.px[c] # Transparent
    /\ result = "base_image"
    /\ heap[result].px = before.px

(* C10: the image object passed to apply_watermark, add_text_watermark or
   add_image_watermark has the same size, mode and pixels after the call as
   before it, whatever the outcome of the call. *)
C10_InputNotMutated ==
    heap["image"] = before

C10_Witness ==
    /\ pc = "add_image_watermark"
    /\ result = "composite"
    /\ heap[result].px # before.px
    /\ heap["image"] = before

(* ---------------- claims about the configuration and the font ---------------- *)
(* apply_watermark drew a non-empty text whose font_path was empty and whose
   family the resolver found *)
ResolvedForText ==
    /\ pc = "apply_watermark"
    /\ requested.watermark_type = "text"
    /\ requested.text # <<>>
    /\ requested.font_path = ""
    /\ ResolveFontWithAliases(FamiliesOf(requested)).found

(* C11: after apply_watermark(image, config) every field of the caller's
   configuration, font_family, font_path and font_index included, has the
   value it had before the call. *)
C11_ConfigNotMutated ==
    pc = "apply_watermark" => config = requested

(* C12: when the font_path of a text watermark is empty and the resolver
   yields (path, index), _measure_text and add_text_watermark are both given
   exactly that (path, index), and afterwards config.font_path = path and
   config.font_index = index. *)
C12_ResolvedFontUsed ==
    ResolvedForText =>
        /\ measured_with = <<[path |-> ResolveFontWithAliases(FamiliesOf(requested)).path,
                              index |-> ResolveFontWithAliases(FamiliesOf(requested)).index]>>
        /\ rendered_with = measured_with
        /\ config.font_path = ResolveFontWithAliases(FamiliesOf(requested)).path
        /\ config.font_index = ResolveFontWithAliases(FamiliesOf(requested)).index

C12_Witness ==
    /\ ResolvedForText
    /\ requested.font_index = 0
    /\ rendered_with = <<[path |-> "Helvetica.ttc", index |-> 2]>>
    /\ config.font_index = 2

(* ---------------- claims about measuring and drawing text ---------------- *)
(* apply_watermark measured and drew a non-empty text *)
TextDrawn ==
    /\ pc = "apply_watermark"
    /\ requested.watermark_type = "text"
    /\ requested.text # <<>>

InkCount(im, ink) == Cardinality({c \in Coords(im.size) : im.px[c] = ink})

(* the pixels a stroke of the given radius adds around a w x h glyph run *)
RingArea(w, h, radius) == (w + 2 * radius) * (h + 2 * radius) - w * h

(* the pixels of a w x h run that the same run moved by offset leaves visible *)
ShiftedArea(w, h, offset) ==
    w * h - Max(0, w - Abs(offset[1])) * Max(0, h - Abs(offset[2]))

(* every pixel of the glyph run, of its stroke and of its shadow is on the layer *)
InkComplete ==
    /\ InkCount(merge.layer, TextInk) = GlyphW * Len(requested.text) * GlyphH
    /\ requested.text_stroke =>
         InkCount(merge.layer, StrokeInk)
           = RingArea(GlyphW * Len(requested.text), GlyphH,
                      IF DrawAcceptsStroke(backend) THEN requested.stroke_width
                      ELSE Max(1, requested.stroke_width))
    /\ (requested.text_shadow /\ ~requested.text_stroke) =>
         InkCount(merge.layer, ShadowInk)
           = ShiftedArea(GlyphW * Len(requested.text), GlyphH, requested.shadow_offset)

(* C13: the layer add_text_watermark allocates has, before rotation, exactly
   the width and height _measure_text computes before rotation; the rendered
   layer exceeds the measured size by at most 2 px on either axis and the
   drawn text, stroke and shadow are not clipped by the layer. *)
C13_MeasureMatchesRender ==
    TextDrawn =>
        /\ requested.rotation_angle % 360 = 0 => merge.layer.size = watermark_size
        /\ merge.layer.size[1] <= watermark_size[1] + 2
        /\ merge.layer.size[2] <= watermark_size[2] + 2
        /\ (requested.rotation_angle % 360 = 0 /\ requested.opacity > 0) => InkComplete

(* ---------------- claims about resizing ---------------- *)
ResizedBy(method) ==
    /\ pc = "resized"
    /\ requested.resize_enabled
    /\ requested.resize_method = method

(* C14: with resize enabled the output size is, for 'percentage' with
   percentage p (p < 1 treated as 1), (max(1, floor(w*p/100)),
   max(1, floor(h*p/100))); for 'width' with aspect kept, (W, max(1,
   floor(h*W/w))); for 'height' with aspect kept, (max(1, floor(w*H/h)), H);
   every output dimension is at least 1. *)
C14_ResizeDimensions ==
    /\ ResizedBy("percentage") =>
          image_size = <<Max(1, (original_size[1] * Max(1, requested.resize_percentage)) \div 100),
                         Max(1, (original_size[2] * Max(1, requested.resize_percentage)) \div 100)>>
    /\ (ResizedBy("width") /\ requested.keep_aspect_ratio /\ requested.resize_width >= 1) =>
          image_size = <<requested.resize_width,
                         Max(1, (original_size[2] * requested.resize_width) \div original_size[1])>>
    /\ (ResizedBy("height") /\ requested.keep_aspect_ratio /\ requested.resize_height >= 1) =>
          image_size = <<Max(1, (original_size[1] * requested.resize_height) \div original_size[2]),
                         requested.resize_height>>
    /\ pc = "resized" => (image_size[1] >= 1 /\ image_size[2] >= 1)

(* apply_watermark resized its working copy to another size *)
ResizedFirst ==
    /\ pc = "apply_watermark"
    /\ requested.resize_enabled
    /\ WorkingSize(before.size, requested) # before.size

(* apply_watermark computed a placement *)
PlacementComputed ==
    /\ pc = "apply_watermark"
    /\ requested.watermark_type = "image" \/ requested.text # <<>>

(* C15: when a pre-resize is requested, the canvas size apply_watermark
   passes to _clamp_position / _calculate_grid_position is the size of the
   resized working copy, which is the size of the returned image, and never
   the size of the input image; for text and for image watermarks. *)
C15_ResizeBeforePlacement ==
    /\ pc = "apply_watermark" => image_size = heap[result].size
    /\ ResizedFirst =>
          /\ image_size = heap["resized"].size
          /\ image_size # before.size
    /\ PlacementComputed =>
          placed = CenterOf(requested, heap[result].size, watermark_size)

C15_Witness ==
    /\ ResizedFirst
    /\ requested.watermark_type = "image"
    /\ watermark_size # <<0, 0>>
    /\ image_size = heap["resized"].size
    /\ placed # CenterOf(requested, before.size, watermark_size)

(* ---------------- claims about calls that draw nothing ---------------- *)
NoImageToDraw ==
    /\ pc = "apply_watermark"
    /\ requested.watermark_type = "image"
    /\ \/ requested.image_watermark_path = ""
       \/ ~PathExists(requested.image_watermark_path)
       \/ ~Readable(requested.image_watermark_path)

NoTextToDraw ==
    /\ pc = "apply_watermark"
    /\ requested.watermark_type = "text"
    /\ requested.text = <<>>

(* the caller's image, copied and resized as requested, and nothing else *)
PlainWorkingCopy ==
    IF requested.resize_enabled /\ WorkingSize(before.size, requested) # before.size
    THEN Resize(before, WorkingSize(before.size, requested))
    ELSE before

(* C16: apply_watermark returns the (possibly resized) working copy without a
   watermark and without raising when the watermark is an image whose path is
   empty, missing or unreadable, or a text that is empty; the image-watermark
   size is then (0, 0) and the measurement of the empty text is (0, 0). *)
C16_NothingToDraw ==
    /\ (NoImageToDraw \/ NoTextToDraw) =>
          /\ ~raised
          /\ result \in {"working", "resized"}
          /\ heap[result] = PlainWorkingCopy
    /\ NoImageToDraw => watermark_size = <<0, 0>>
    /\ NoTextToDraw =>
          MeasureText(requested.text, requested.text_stroke, requested.stroke_width,
                      requested.text_shadow, requested.shadow_offset,
                      requested.rotation_angle, backend) = <<0, 0>>

C16_Witness ==
    /\ NoImageToDraw
    /\ requested.image_watermark_path = "bad.png"
    /\ requested.resize_enabled
    /\ result = "resized"
    /\ heap[result].size # before.size
    /\ watermark_size = <<0, 0>>

(* ---------------- claims about failing raster primitives ---------------- *)
(* a raster primitive raised inside add_text_watermark or add_image_watermark *)
DrawFailed ==
    /\ pc \in {"apply_watermark", "add_text_watermark", "add_image_watermark"}
    /\ caught

(* C17: when a raster primitive raises inside add_text_watermark or
   add_image_watermark, the failure reaches the caller as an error, which
   tells it apart from a successful composite, and the image the caller
   passed in is unmodified. *)
C17_DrawFailureReported ==
    DrawFailed =>
        /\ raised
        /\ heap["image"] = before

(* ---------------- claims about loading fonts ---------------- *)
(* the strategies in the order the specification gives them *)
StrategyOrder ==
    (IF font_request.font_path # NoPath THEN <<font_request.font_path>> ELSE <<>>)
    \o (IF font_request.font_family \in InstalledFamilies
        THEN <<FontFile("/fonts/", font_request.font_family, "", ".ttf")>> ELSE <<>>)
    \o StyledVariants(IF font_request.font_family = "" THEN "Arial"
                      ELSE font_request.font_family,
                      StyledLabels(font_request.bold, font_request.italic))
    \o <<FontFile("", "arial", "", ".ttf"), FontFile("", "Helvetica", "", ".ttc"),
         DefaultFont>>

(* the i-th strategy tried was the explicit path, and its style was refused *)
StyleRefused(i) ==
    /\ i = 1
    /\ font_request.font_path # NoPath
    /\ font_request.bold \/ font_request.italic
    /\ \/ font_request.bold /\ ~path_style.bold
       \/ font_request.italic /\ ~path_style.italic

(* C18: _load_font always returns a renderable font and raises nothing; its
   strategies are tried strictly in the order explicit path (used only if
   its style matches the requested bold/italic, or neither is requested),
   resolved family, styled family-name variants against the extensions '',
   .ttf, .otf, .ttc, the fallbacks arial.ttf and Helvetica.ttc, the built-in
   default font, a later one only after every earlier one failed. *)
C18_FontAlwaysLoaded ==
    pc = "_load_font" =>
        /\ font \in loadable \cup {DefaultFont}
        /\ ~raised
        /\ Len(attempts) >= 1
        /\ Len(attempts) <= Len(StrategyOrder)
        /\ attempts = SubSeq(StrategyOrder, 1, Len(attempts))
        /\ font = attempts[Len(attempts)]
        /\ ~StyleRefused(Len(attempts))
        /\ \A i \in 1..(Len(attempts) - 1) :
              attempts[i] \notin loadable \/ StyleRefused(i)

C18_Witness ==
    /\ pc = "_load_font"
    /\ font_request.font_family = "Nope"
    /\ font_request.font_path = ExplicitPath
    /\ ExplicitPath \notin loadable
    /\ font_request.bold
    /\ font = DefaultFont
    /\ Len(attempts) = 20

(* ---------------- claims about the font index ---------------- *)
(* the font faces recorded under a family key *)
Faces(k) == {<<fonts_by_family[k][i].path, fonts_by_family[k][i].index>> :
                i \in 1..Len(fonts_by_family[k])}

(* C19: the font directory is scanned at most once per FontResolver, also
   when two threads make their first lookup concurrently, so that no font
   face is recorded twice under a family; nothing is recorded before the
   first lookup. *)
C19_ScannedOnce ==
    threads # <<>> =>
        /\ scans <= 1
        /\ \A k \in FamilyKeys : Cardinality(Faces(k)) = Len(fonts_by_family[k])
        /\ scans = 0 => \A k \in FamilyKeys : fonts_by_family[k] = <<>>

(* ---------------- claims about the export thread ---------------- *)
Running == pc \in {"run", "finished"}

(* the positions of the signals of one kind *)
SignalsAt(kind) == {p \in 1..Len(signals) : signals[p][1] = kind}

(* the progress signals emitted before position p *)
ProgressBefore(p) == Cardinality({q \in SignalsAt("progress") : q < p})

Failing(n) == {i \in 1..n : file_fates[i] # "ok"}

(* C20: ExportThread.run attempts every file exactly once and in order; a
   file that raises emits one error signal and does not keep the following
   files from being processed; one progress signal is emitted per file, with
   non-decreasing values ending at 100; finished(success_count, total_count)
   is emitted exactly once, after the last file, with success_count the
   number of files that raised nothing. *)
C20_BatchFailureIsolation ==
    Running =>
        /\ next_file <= Len(file_fates) + 1
        /\ Cardinality(SignalsAt("progress")) = next_file - 1
        /\ \A p \in SignalsAt("progress"), q \in SignalsAt("progress") :
              p < q => signals[p][2] <= signals[q][2]
        /\ {signals[p][2] : p \in SignalsAt("error")} = Failing(next_file - 1)
        /\ Cardinality(SignalsAt("error")) = Cardinality(Failing(next_file - 1))
        /\ \A p \in SignalsAt("error") : ProgressBefore(p) = signals[p][2] - 1
        /\ success_count = next_file - 1 - Cardinality(Failing(next_file - 1))
        /\ pc = "run" => SignalsAt("finished") = {}
        /\ pc = "finished" =>
              /\ next_file = Len(file_fates) + 1
              /\ SignalsAt("finished") = {Len(signals)}
              /\ signals[Len(signals)] = Finished(success_count, Len(file_fates))
              /\ Len(file_fates) > 0 => signals[Len(signals) - 1] = Progress(100)

C20_Witness ==
    /\ pc = "finished"
    /\ Len(file_fates) = 3
    /\ file_fates[1] = "missing"
    /\ file_fates[2] = "save_fails"
    /\ file_fates[3] = "ok"
    /\ success_count = 1
    /\ Len(signals) = 6

(* ---------------- claims about the loaded images ---------------- *)
(* C21: export_image returns False when file_path is not a loaded image and
   returns True, having written the image to the output path, when it is. *)
C21_ExportReturnsFlag ==
    pc = "export_image" =>
        IF call_path \in Keys(images)
        THEN returned = "True" /\ call_path \in saved
        ELSE returned = "False"

(* C29: current_image_path is None or a key of images, and None exactly when
   images is empty; set_current_image with a path that is not loaded returns
   False and changes nothing; removing the current image makes the first
   remaining image, in load order, the current one. *)
CurrentIsLoaded ==
    /\ current_image_path = None \/ current_image_path \in Keys(images)
    /\ current_image_path = None <=> images = <<>>

RefusedSetChangesNothing ==
    (pc' = "set_current_image" /\ call_path' \notin Keys(images)) =>
        /\ returned' = "False"
        /\ images' = images
        /\ current_image_path' = current_image_path

RemovedCurrentIsReplaced ==
    (pc' = "remove_image" /\ call_path' = current_image_path /\ call_path' \in Keys(images)) =>
        /\ images' = Without(images, call_path')
        /\ current_image_path' = IF Len(images) > 1 THEN images'[1] ELSE None

C29_CurrentImageInvariant ==
    /\ []CurrentIsLoaded
    /\ [][RefusedSetChangesNothing /\ RemovedCurrentIsReplaced]_vars

C29_Witness ==
    /\ pc = "remove_image"
    /\ returned = "True"
    /\ call_path = "a.png"
    /\ images = <<"c.png", "b.jpg">>
    /\ current_image_path = "c.png"

(* ---------------- claims about font face scoring ---------------- *)
HasListed(style_lower, tokens) == \E token \in tokens : Contains(style_lower, token)

(* a style without any character other than blanks counts as empty *)
Blank(style) == \A i \in 1..Len(style) : Char(style, i) = " "

(* the scoring rule over given token lists *)
RuleScore(style_lower, bold, italic, for_bold, for_italic) ==
    (IF bold <=> HasListed(style_lower, for_bold) THEN 2 ELSE 0)
    + (IF italic <=> HasListed(style_lower, for_italic) THEN 2 ELSE 0)
    + (IF bold /\ HasListed(style_lower, for_bold) THEN 1 ELSE 0)
    + (IF italic /\ HasListed(style_lower, for_italic) THEN 1 ELSE 0)
    + (IF ~bold /\ ~italic /\ (Blank(style_lower) \/ Contains(style_lower, "regular"))
       THEN 1 ELSE 0)

Scored == pc = "score_entry"

(* C23: the score of a face is +2 if the requested bold equals the face's
   boldness, detected by the substrings bold, black, heavy, demi, semibold,
   medium; +2 if the requested italic equals its italic, detected by italic,
   oblique, slant; +1 if bold is requested and present; +1 if italic is
   requested and present; +1 if neither is requested and the style is empty
   or contains regular. *)
C23_ScoreRule ==
    Scored =>
        score = RuleScore(ToLower(score_call.style), score_call.bold, score_call.italic,
                          {"bold", "black", "heavy", "demi", "semibold", "medium"},
                          {"italic", "oblique", "slant"})

(* ---------------- claims about font face lookup ---------------- *)
Resolved == pc = "resolve"

(* the entries of a family: those under its lower-cased name, else those
   under its alphanumeric-normalized name *)
FamilyEntries(family) ==
    IF ToLower(family) \in FamilyKeys THEN fonts_by_family[ToLower(family)]
    ELSE IF NormalizeFamily(family) \in FamilyKeys THEN fonts_by_family[NormalizeFamily(family)]
    ELSE <<>>

(* the total score of an entry for a request with a trimmed, lower-cased hint *)
Total(entry, bold, italic, hint) ==
    ScoreEntry(entry.style, bold, italic)
    + (IF hint # "" /\ ToLower(entry.style) = hint THEN 5
       ELSE IF hint # "" /\ Contains(ToLower(entry.style), hint) THEN 3
       ELSE 0)

(* entry i has the highest total and is the first to have it *)
FirstBest(entries, i, bold, italic, hint) ==
    /\ \A j \in 1..Len(entries) :
         Total(entries[j], bold, italic, hint) <= Total(entries[i], bold, italic, hint)
    /\ \A j \in 1..(i - 1) :
         Total(entries[j], bold, italic, hint) < Total(entries[i], bold, italic, hint)

Selected(entries, call, face) ==
    IF call.family = "" \/ entries = <<>>
    THEN face = NotFound
    ELSE \E i \in 1..Len(entries) :
            /\ face = [found |-> TRUE, path |-> entries[i].path, index |-> entries[i].index]
            /\ FirstBest(entries, i, call.bold, call.italic, Strip(ToLower(call.style_name)))

(* C24: for a family found in the index by its lower-cased name, else by its
   alphanumeric-normalized name, resolve returns the (path, face_index) of the
   entry with the highest total score, the base score plus 5 if the style
   hint (trimmed, compared case-insensitively) equals the entry's style, else
   plus 3 if it is a substring of it; of several entries with the highest
   score the first in index order wins; with no entry under the family, or an
   empty family, it returns None. *)
C24_FaceSelection ==
    Resolved => Selected(FamilyEntries(resolve_call.family), resolve_call, resolve_result)

C24_Witness ==
    /\ Resolved
    /\ resolve_call = [family |-> "bahnschrift", bold |-> FALSE, italic |-> FALSE,
                       style_name |-> ""]
    /\ resolve_result = [found |-> TRUE, path |-> "bahnl.ttf", index |-> 0]

(* the key a call is memoized under *)
KeyOf(call) == <<ToLower(call.family), call.bold, call.italic, Strip(ToLower(call.style_name))>>

ReturnsFirstResult ==
    (Resolved /\ resolve_call.family # "") =>
        /\ KeyOf(resolve_call) \in DOMAIN cache
        /\ resolve_result = cache[KeyOf(resolve_call)]
        /\ resolve_result = first_results[KeyOf(resolve_call)]
        /\ resolve_result = Lookup(fonts_by_family, resolve_call.family, resolve_call.bold,
                                   resolve_call.italic, resolve_call.style_name)

MemoIsSound ==
    \A k \in DOMAIN cache : cache[k] = Lookup(fonts_by_family, k[1], k[2], k[3], k[4])

MemoIsKept == \A k \in DOMAIN cache : k \in DOMAIN cache' /\ cache'[k] = cache[k]

(* C25: a repeated resolve with the same (case-insensitive family, bold,
   italic, normalized style hint) returns what the first call with that key
   returned, a memoized None included; a memo entry is never changed or
   removed; each memoized value is what a lookup past the memo returns on the
   built index. *)
C25_MemoStableAndSound ==
    /\ [](ReturnsFirstResult /\ MemoIsSound)
    /\ [][MemoIsKept]_vars

C25_Witness ==
    /\ Resolved
    /\ lookups = 2
    /\ resolve_call.family = "Nope"
    /\ resolve_result = NotFound
    /\ Cardinality(DOMAIN cache) = 1

(* ---------------- claims about the rotated bounding box ---------------- *)
(* ceil(n / sqrt 2): the least k with 2 k^2 >= n^2 *)
CeilOverRoot2(n) == CHOOSE k \in 0..n : 2 * k * k >= n * n /\ (k = 0 \/ 2 * (k - 1) * (k - 1) < n * n)

(* the axis-aligned bounding box of a w x h rectangle turned by a multiple
   of 45 degrees *)
ExactBox(w, h, rotation) ==
    IF rotation % 180 = 0 THEN <<w, h>>
    ELSE IF rotation % 90 = 0 THEN <<h, w>>
    ELSE <<CeilOverRoot2(w + h), CeilOverRoot2(w + h)>>

(* C26: _rotated_bounds(w, h, r) returns (w, h) for r a multiple of 360 and
   for any other r exactly the axis-aligned bounding box of the turned
   rectangle, (h, w) for a quarter turn and (w, h) for a half turn; the width
   at 45 degrees is not smaller than the width at 0 degrees when w # h. *)
C26_RotatedBoundsExact ==
    pc = "rotated_bounds" =>
        /\ bounds = ExactBox(bounds_call.width, bounds_call.height, bounds_call.rotation)
        /\ (bounds_call.rotation = 45 /\ bounds_call.width # bounds_call.height)
              => bounds[1] >= bounds_call.width

(* ---------------- claims about clipping at the edges ---------------- *)
(* the destination rectangle of the merged layer meets the canvas without
   lying inside it *)
PartlyInside ==
    /\ \A i \in {1, 2} : merge.dest[i] < before.size[i] /\ merge.dest[i] + merge.layer.size[i] > 0
    /\ \E i \in {1, 2} : merge.dest[i] < 0 \/ merge.dest[i] + merge.layer.size[i] > before.size[i]

(* the pixel at c after the layer is composited with its top-left at dest *)
ClippedPixel(c, dest, layer) ==
    IF <<c[1] - dest[1], c[2] - dest[2]>> \in Coords(layer.size)
    THEN Over(before.px[c], layer.px[<<c[1] - dest[1], c[2] - dest[2]>>])
    ELSE before.px[c]

(* C27: when the destination rectangle of a text or image watermark only
   partly overlaps the canvas (a negative top-left and a layer larger than the
   canvas included), the result has the size of the base image, layer pixel
   (i, j) lands on base pixel (dest_x + i, dest_y + j) where that lies inside
   the canvas, the rest of the layer is discarded, and no error is raised. *)
C27_EdgeClipping ==
    (pc \in {"add_text_watermark", "add_image_watermark"} /\ merge.dest # NoPosition
        /\ PartlyInside) =>
        /\ ~caught
        /\ result # None
        /\ heap[result].size = before.size
        /\ \A c \in Coords(before.size) :
             heap[result].px[c] = ClippedPixel(c, merge.dest, merge.layer)

(* ---------------- claims about the preview ---------------- *)
(* C28: for every canvas size, watermark size, anchor name (an unknown one
   included) and requested position, _calculate_default_watermark_position
   returns what _calculate_grid_position returns and _clamp_position_to_image
   what _clamp_position returns, so preview and export place the watermark at
   the same center. *)
C28_PreviewMatchesExport ==
    /\ pc = "anchor" => preview_position = placed
    /\ (pc = "custom" /\ position # NoPosition) => preview_position = placed

C28_Witness ==
    /\ pc = "custom"
    /\ image_size = <<2, 2>>
    /\ watermark_size = <<5, 1>>
    /\ position = <<5, 4>>
    /\ preview_position = <<1, 2>>
    /\ placed = <<1, 2>>

(* the bounding rectangle of the item lies inside the image around P *)
FitsAroundCall ==
    /\ preview_call.position # NoPosition
    /\ \A i \in {1, 2} :
         /\ 2 * preview_call.position[i] >= preview_call.size[i]
         /\ 2 * preview_call.position[i] + preview_call.size[i] <= 2 * original_image_size[i]

(* C22: after add_watermark_preview(position=P, rotation=a) on an image in
   which the watermark fits around P, the rotation of the preview item is -a
   and get_watermark_position() returns P within 1 px on both axes, for
   positive, negative and zero angles. *)
C22_PreviewKeepsCenter ==
    (pc = "get_watermark_position" /\ FitsAroundCall) =>
        /\ watermark_item.rotation = 0 - preview_call.rotation
        /\ \A i \in {1, 2} : Abs(reported[i] - preview_call.position[i]) <= 1

C22_Witness ==
    /\ pc = "get_watermark_position"
    /\ FitsAroundCall
    /\ preview_call = [kind |-> "text", size |-> <<4, 2>>, rotation |-> 0 - 135,
                       position |-> <<3, 2>>]
    /\ reported = <<3, 2>>

(* C30: a refresh of the preview by the program never changes
   use_custom_position or custom_watermark_position; every drag by the user,
   however its events fall among the refreshes and timers, ends with
   use_custom_position true and custom_watermark_position at the dragged
   center; a click on a grid button always leaves use_custom_position false
   and custom_watermark_position None. *)
RefreshKeepsMode ==
    pc' = "update_preview" =>
        UNCHANGED <<use_custom_position, custom_watermark_position>>

DragEndsCustom ==
    pc' = "drag_release" =>
        /\ use_custom_position'
        /\ custom_watermark_position' = ReportedCenter(watermark_item', original_image_size')

ButtonResetsMode ==
    pc' = "position_button" =>
        /\ ~use_custom_position'
        /\ custom_watermark_position' = NoPosition

C30_RefreshKeepsMode == [][RefreshKeepsMode]_vars

C30_ButtonResetsMode == [][ButtonResetsMode]_vars

C30_DragModeSync == [][RefreshKeepsMode /\ DragEndsCustom /\ ButtonResetsMode]_vars

====
